---- MODULE Spec2Model ----
(***************************************************************************)
(* Model of the query-api-service of daphatpharm4/scrappy:                 *)
(*   app/cache.py   CacheManager (TTL cache on files)                      *)
(*   app/auth.py    TokenProvider (bearer token gate)                      *)
(*   app/models.py  BaseDataQuery and its subclasses (validated queries)   *)
(*   app/data.py    DataRepository (filters over a lazy frame)             *)
(* Each component has its own specification over the shared variables; the *)
(* variables of the other components stay at rest.                         *)
(***************************************************************************)
EXTENDS Integers, Sequences, FiniteSets, TLC

VARIABLES
    now,          \* wall clock, time.time(), in whole seconds
    ttl_seconds,  \* CacheManager.ttl_seconds / Settings.cache_ttl_seconds
    cacheFiles,   \* the cache directory: path -> [mtime, data]
    written,      \* history: path -> when it was last written and the value given to the write
    cop,          \* the last CacheManager call and what it returned
    key_vault_name,     \* Settings.key_vault_name
    api_auth_fallback,  \* Settings.api_auth_fallback
    tp,           \* a TokenProvider that lives across calls: [cached_token, fetched_at]
    aop,          \* the last validation or HTTP request and how it ended
    qraw,         \* the raw parameters a query is being constructed from
    qres,         \* the construction's result: the class, the errors, the query
    frame,        \* what scan_parquet yields for the dataset a fetch reads: [schema, rows]
    fop,          \* the fetch in progress: the call, its query and what it returns
    root,         \* whether the dataset root directory exists
    present,      \* the parquet files that exist under the dataset root
    lop,          \* the last load of the dataset, or resolution of a path, and how it ended
    threads,      \* the threads that call get_or_set_json on one key: position and locals
    objects,      \* LocalObjectStore: the files under base_path / bucket, path -> bytes
    sop,          \* the last LocalObjectStore call and how it ended
    rcall,        \* a call of a function wrapped by retry: position, attempt, invocations
    bucket,       \* the MinIO bucket of the cleaning service: raw objects, outputs, manifest
    run           \* run_cleaning in progress: position, the keys still to process

clockVars == <<now, ttl_seconds>>
cacheVars == <<cacheFiles, written, cop>>
authVars == <<key_vault_name, api_auth_fallback, tp, aop>>
queryVars == <<qraw, qres>>
fetchVars == <<frame, fop>>
loadVars == <<root, present, lop>>
raceVars == <<threads>>
storeVars == <<objects, sop>>
retryVars == <<rcall>>
cleanVars == <<bucket, run>>
pocVars == <<storeVars, retryVars, cleanVars>>
ioVars == <<loadVars, raceVars, pocVars>>

vars == <<clockVars, cacheVars, authVars, queryVars, fetchVars, ioVars>>

\* ------------------------------------------------------------------ bounds

MaxTime == 4
MaxTtl == 2
MaxStrLen == 4
MaxParams == 2
MaxDate == 2
MaxAmount == 2
MaxRows == 2
MaxAttempts == 3
MaxBackoff == 2

\* ------------------------------------------------------------ CacheManager

\* Characters re.sub(r"[^A-Za-z0-9_.-]", "_", key) keeps. A key is a sequence of
\* tokens: a token of SafeTokens stands for a run of kept characters, any other
\* token for one character that is replaced.
SafeTokens == {"list_", "parquet_", "demo", "prices", "a", "b", "_", ".", "-"}

sanitize(key) == [i \in DOMAIN key |-> IF key[i] \in SafeTokens THEN key[i] ELSE "_"]

\* CacheManager._key_path: base_path / safe_key; the path is named by safe_key.
key_path(key) == sanitize(key)

\* Keys of get_or_set_json: f"list_{dataset}" (DataRepository._list_parquet_files).
\* Two of the dataset names differ only in a character the sanitizer replaces.
Datasets == {<<"a", "/", "b">>, <<"a", "_", "b">>}
ListKey(dataset) == <<"list_">> \o dataset
JsonKeys == {ListKey(d) : d \in Datasets}

\* Key of write_bytes in test_cache_refreshes_on_ttl.
ByteKeys == {<<"demo">>}

Keys == JsonKeys \cup ByteKeys
Paths == {key_path(k) : k \in Keys}

\* Python values a loader returns: a list or a tuple of strings.
PyNone == [type |-> "none", items |-> <<>>]
PyList(items) == [type |-> "list", items |-> items]
LoaderValues ==
    { [type |-> t, items |-> s] : t \in {"list", "tuple"}, s \in {<<>>, <<"f1">>} }

\* json.dumps(data, default=str).encode("utf-8"): a tuple is written as an array.
dumps(data) == [fmt |-> "json", doc |-> data.items]
\* json.loads: an array is read back as a list.
loads(bytes) == PyList(bytes.doc)

ByteValues == { [fmt |-> "raw", doc |-> <<c>>] : c \in {"content"} }

\* CacheManager.is_fresh
is_fresh_mut(files, key, t, ttl) ==
    /\ key_path(key) \in DOMAIN files
    /\ t - files[key_path(key)].mtime < ttl
is_fresh(files, key, t, ttl) ==
    /\ key_path(key) \in DOMAIN files
    /\ t - files[key_path(key)].mtime <= ttl

\* path.write_bytes(data): the file is replaced wholesale and its mtime is now.
write_file(files, path, data, t) ==
    [p \in DOMAIN files \cup {path} |-> IF p = path THEN [mtime |-> t, data |-> data] ELSE files[p]]

\* path.unlink(missing_ok=True)
unlink(files, path) == [p \in DOMAIN files \ {path} |-> files[p]]

NeverWritten == [at |-> -1, val |-> PyNone]
NoCacheOp == [op |-> "none", key |-> <<>>, at |-> 0, prev |-> NeverWritten, raised |-> "",
              val |-> PyNone, fresh |-> FALSE, loaderCalls |-> 0]

CacheIdle ==
    /\ cacheFiles = <<>>
    /\ written = <<>>
    /\ cop = NoCacheOp

\* CacheManager.__init__: an empty directory; the TTL is a setting.
CacheInit ==
    /\ cacheFiles = <<>>
    /\ written = [p \in Paths |-> NeverWritten]
    /\ cop = NoCacheOp

\* The clock starts at 0; Settings.cache_ttl_seconds is a setting of the process.
ClockInit ==
    /\ now = 0
    /\ ttl_seconds \in 0..MaxTtl

\* One second passes.
Tick ==
    /\ now < MaxTime
    /\ now' = now + 1
    /\ UNCHANGED <<ttl_seconds, cacheVars, authVars, queryVars, fetchVars, ioVars>>

\* CacheManager.is_fresh(key) called on its own.
IsFresh(key) ==
    /\ cop' = [NoCacheOp EXCEPT !.op = "is_fresh", !.key = key, !.at = now,
                                !.prev = written[key_path(key)],
                                !.fresh = is_fresh(cacheFiles, key, now, ttl_seconds)]
    /\ UNCHANGED <<now, ttl_seconds, cacheFiles, written, authVars, queryVars, fetchVars, ioVars>>

\* CacheManager.write_bytes(key, data)
WriteBytes(key, data) ==
    /\ cacheFiles' = write_file(cacheFiles, key_path(key), data, now)
    /\ written' = [written EXCEPT ![key_path(key)] = [at |-> now, val |-> PyNone]]
    /\ cop' = [NoCacheOp EXCEPT !.op = "write_bytes", !.key = key, !.at = now,
                                !.prev = written[key_path(key)]]
    /\ UNCHANGED <<now, ttl_seconds, authVars, queryVars, fetchVars, ioVars>>

\* CacheManager.get_or_set_json(key, loader) as a function of the directory: the
\* files after the call, the value returned, the exception raised ("" for none)
\* and how often the loader ran. The loader returns `loaded`, or raises
\* DataAccessError when `raises` (the loader of _list_parquet_files does, when the
\* dataset root is missing).
get_or_set_json_mut(files, key, t, ttl, loaded, raises) ==
    IF raises
      THEN [files |-> files, val |-> PyNone, raised |-> "DataAccessError", loaderCalls |-> 1]
      ELSE [files |-> write_file(files, key_path(key), dumps(loaded), t),
            val |-> loaded, raised |-> "", loaderCalls |-> 1]
get_or_set_json_mut_failed(files, key, t, ttl, loaded, raises) ==
    IF is_fresh(files, key, t, ttl)
      THEN [files |-> files, val |-> loads(files[key_path(key)].data), raised |-> "",
            loaderCalls |-> 0]
      ELSE IF raises
        THEN [files |-> write_file(files, key_path(key), dumps(PyList(<<>>)), t),
              val |-> PyNone, raised |-> "DataAccessError", loaderCalls |-> 1]
        ELSE [files |-> write_file(files, key_path(key), dumps(loaded), t),
              val |-> loaded, raised |-> "", loaderCalls |-> 1]
get_or_set_json(files, key, t, ttl, loaded, raises) ==
    IF is_fresh(files, key, t, ttl)
      THEN [files |-> files, val |-> loads(files[key_path(key)].data), raised |-> "",
            loaderCalls |-> 0]
      ELSE IF raises
        THEN [files |-> files, val |-> PyNone, raised |-> "DataAccessError", loaderCalls |-> 1]
        ELSE [files |-> write_file(files, key_path(key), dumps(loaded), t),
              val |-> loaded, raised |-> "", loaderCalls |-> 1]

GetOrSetJson(key, loaded, raises) ==
    LET r == get_or_set_json(cacheFiles, key, now, ttl_seconds, loaded, raises)
    IN  /\ cop' = [NoCacheOp EXCEPT !.op = "get_or_set_json", !.key = key, !.at = now,
                                    !.prev = written[key_path(key)],
                                    !.raised = r.raised, !.val = r.val,
                                    !.loaderCalls = r.loaderCalls]
        /\ cacheFiles' = r.files
        /\ written' = IF r.loaderCalls = 1 /\ r.raised = ""
                        THEN [written EXCEPT ![key_path(key)] = [at |-> now, val |-> loaded]]
                        ELSE written
        /\ UNCHANGED <<now, ttl_seconds, authVars, queryVars, fetchVars, ioVars>>

\* CacheManager.invalidate_if_expired([key])
InvalidateIfExpired(key) ==
    LET path == key_path(key)
    IN  /\ cacheFiles' = IF path \in DOMAIN cacheFiles /\ ~is_fresh(cacheFiles, key, now, ttl_seconds)
                           THEN unlink(cacheFiles, path)
                           ELSE cacheFiles
        /\ cop' = [NoCacheOp EXCEPT !.op = "invalidate_if_expired", !.key = key, !.at = now,
                                    !.prev = written[path]]
        /\ UNCHANGED <<now, ttl_seconds, written, authVars, queryVars, fetchVars, ioVars>>

\* ----------------------------------------------------------- TokenProvider

\* Optional[str]: None is told apart from the empty string.
None == "<None>"
Tokens == {"tokA", "tokB"}

\* str.lower() on the schemes a client sends.
Schemes == {"Bearer", "BEARER", "Basic"}
lower(scheme) ==
    CASE scheme = "Bearer" -> "bearer"
      [] scheme = "BEARER" -> "bearer"
      [] scheme = "Basic" -> "basic"

\* HTTPAuthorizationCredentials(scheme, credentials), or no credentials at all.
NoCredentials == [scheme |-> None, credentials |-> None]
Credentials ==
    {NoCredentials} \cup [scheme : Schemes, credentials : Tokens]

\* What client.get_secret(...) does when it is called: it raises, or it returns a
\* secret whose value is None, empty or a token.
VaultOutcomes == {"raise", None, ""} \cup Tokens

\* TokenProvider.__init__
TokenProvider(fallback) == [cached_token |-> fallback, fetched_at |-> -1]

\* TokenProvider._should_refresh
should_refresh_mut(p, vault_name, t, ttl) ==
    \/ p.cached_token = None
    \/ /\ vault_name # None
       /\ p.fetched_at # -1
       /\ (t - p.fetched_at) > ttl
should_refresh(p, vault_name, t, ttl) ==
    IF p.cached_token = None THEN TRUE
    ELSE IF vault_name = None THEN FALSE
    ELSE IF p.fetched_at = -1 THEN TRUE
    ELSE (t - p.fetched_at) > ttl

\* TokenProvider.expected_token with _fetch_secret_from_vault and _vault_client:
\* the provider afterwards, the token returned (None when it raised), the status
\* of the exception raised (0 for none; an exception that is no HTTPException
\* ends the request with 500), whether a refresh was decided and whether the
\* secret store was called.
expected_token(p, vault_name, t, ttl, vault) ==
    LET refresh == should_refresh(p, vault_name, t, ttl)
    IN  IF refresh /\ vault_name = None
          THEN [p |-> p, token |-> None, status |-> 500, exc |-> "HTTPException",
                refresh |-> TRUE, contacted |-> FALSE]
        ELSE IF refresh /\ vault = "raise"
          THEN [p |-> p, token |-> None, status |-> 500, exc |-> "Exception",
                refresh |-> TRUE, contacted |-> TRUE]
        ELSE LET q == IF refresh THEN [cached_token |-> vault, fetched_at |-> t] ELSE p
             IN  IF q.cached_token = None \/ q.cached_token = ""
                   THEN [p |-> q, token |-> None, status |-> 503, exc |-> "HTTPException",
                         refresh |-> refresh, contacted |-> refresh]
                   ELSE [p |-> q, token |-> q.cached_token, status |-> 0, exc |-> "",
                         refresh |-> refresh, contacted |-> refresh]

\* TokenProvider.validate: status 0 when it returns.
validate_mut(p, vault_name, t, ttl, vault, cred) ==
    IF cred = NoCredentials \/ lower(cred.scheme) # "bearer"
      THEN [p |-> p, token |-> None, status |-> 401, exc |-> "HTTPException",
            refresh |-> FALSE, contacted |-> FALSE]
      ELSE expected_token(p, vault_name, t, ttl, vault)
validate(p, vault_name, t, ttl, vault, cred) ==
    IF cred = NoCredentials \/ lower(cred.scheme) # "bearer"
      THEN [p |-> p, token |-> None, status |-> 401, exc |-> "HTTPException",
            refresh |-> FALSE, contacted |-> FALSE]
      ELSE LET e == expected_token(p, vault_name, t, ttl, vault)
           IN  IF e.status = 0 /\ cred.credentials # e.token
                 THEN [e EXCEPT !.status = 401, !.exc = "HTTPException"]
                 ELSE e

NoAuthOp == [op |-> "none", endpoint |-> "", cred |-> NoCredentials, vault |-> None,
             repo |-> "", at |-> 0, pre |-> TokenProvider(None), status |-> 0,
             exc |-> "", refresh |-> FALSE, contacted |-> FALSE, reached |-> FALSE]

AuthIdle ==
    /\ key_vault_name = None
    /\ api_auth_fallback = None
    /\ tp = TokenProvider(None)
    /\ aop = NoAuthOp

\* The settings of the process, and a provider constructed from them.
AuthInit ==
    /\ key_vault_name \in {None, "kv"}
    /\ api_auth_fallback \in {None, "", "tokA"}
    /\ tp = TokenProvider(api_auth_fallback)
    /\ aop = NoAuthOp

\* provider.validate(credentials) on the provider that lives across calls, as in
\* tests/test_auth.py.
Validate(cred, vault) ==
    LET r == validate(tp, key_vault_name, now, ttl_seconds, vault, cred)
    IN  /\ tp' = r.p
        /\ aop' = [NoAuthOp EXCEPT !.op = "validate", !.cred = cred,
                                   !.vault = IF r.contacted THEN vault ELSE None,
                                   !.at = now, !.pre = tp, !.status = r.status,
                                   !.exc = r.exc, !.refresh = r.refresh,
                                   !.contacted = r.contacted]
        /\ UNCHANGED <<now, ttl_seconds, key_vault_name, api_auth_fallback, cacheVars, queryVars, fetchVars, ioVars>>

HealthEndpoints == {"/health", "/health/live", "/health/ready"}
DataEndpoints ==
    {"/data/prices", "/data/realestate", "/data/providers", "/analytics/provider-summary"}

\* What the repository call of the handler does: it returns rows or raises.
RepoOutcomes == {"rows", "DataAccessError"}

\* The route handlers: analytics.provider_summary turns DataAccessError into 400;
\* get_prices, get_real_estate and list_providers let it propagate (500).
handler(endpoint, repo) ==
    IF repo = "rows" THEN 200
    ELSE IF endpoint = "/analytics/provider-summary" THEN 400
    ELSE 500

\* get_token_provider: a new TokenProvider(settings).
NewProvider ==
    /\ tp' = TokenProvider(api_auth_fallback)
    /\ UNCHANGED <<now, ttl_seconds, key_vault_name, api_auth_fallback, aop, cacheVars, queryVars, fetchVars, ioVars>>

\* One HTTP request to a health route, which has no dependency.
HealthRequest(endpoint, cred) ==
    /\ aop' = [NoAuthOp EXCEPT !.op = "request", !.endpoint = endpoint, !.cred = cred,
                               !.status = 200]
    /\ UNCHANGED <<now, ttl_seconds, key_vault_name, api_auth_fallback, tp, cacheVars, queryVars, fetchVars, ioVars>>

\* One HTTP request, with valid query parameters, to a route that depends on
\* require_auth: it validates with the provider get_token_provider constructs for
\* this request, and then the handler runs.
DataRequest(endpoint, cred, vault, repo) ==
    LET r == validate(TokenProvider(api_auth_fallback), key_vault_name, now,
                      ttl_seconds, vault, cred)
        h == handler(endpoint, repo)
    IN  /\ aop' = [NoAuthOp EXCEPT
                     !.op = "request", !.endpoint = endpoint, !.cred = cred,
                     !.pre = TokenProvider(api_auth_fallback),
                     !.vault = IF r.contacted THEN vault ELSE None,
                     !.repo = IF r.status = 0 THEN repo ELSE "",
                     !.status = IF r.status = 0 THEN h ELSE r.status,
                     !.exc = IF r.status # 0 THEN r.exc
                             ELSE IF h = 200 THEN ""
                             ELSE IF h = 400 THEN "HTTPException"
                             ELSE "DataAccessError",
                     !.refresh = r.refresh, !.contacted = r.contacted,
                     !.reached = (r.status = 0)]
        /\ UNCHANGED <<now, ttl_seconds, key_vault_name, api_auth_fallback, tp, cacheVars, queryVars, fetchVars, ioVars>>

\* -------------------------------------------------------------- Query model

\* Optional[T]: <<>> is None, <<v>> is the value v.
Absent == <<>>
Some(v) == <<v>>

\* Characters of the text parameters: a blank and a lower-case letter.
Alphabet == {" ", "a"}

\* str.upper(), character by character.
upper_char(c) == IF c = "a" THEN "A" ELSE c
upper(str) == [i \in DOMAIN str |-> upper_char(str[i])]

\* str.strip(): leading, then trailing whitespace is removed.
RECURSIVE lstrip(_)
lstrip(str) == IF str # <<>> /\ Head(str) = " " THEN lstrip(Tail(str)) ELSE str
RECURSIVE rstrip(_)
rstrip(str) ==
    IF str # <<>> /\ str[Len(str)] = " " THEN rstrip(SubSeq(str, 1, Len(str) - 1)) ELSE str
strip(str) == rstrip(lstrip(str))

\* BaseDataQuery.normalize_strings (mode="before") on an Optional[str]
normalize_strings_mut(value) ==
    IF value = Absent THEN value
    ELSE IF strip(value[1]) # <<>> THEN Some(strip(value[1])) ELSE Absent
normalize_strings(value) ==
    IF value = Absent THEN value
    ELSE IF strip(value[1]) # <<>> THEN Some(upper(strip(value[1]))) ELSE Absent

\* Field(...) constraints of models.py
ProviderMinLength == 1
CountryMinLength == 2
CountryMaxLength == 3
RegionMinLength == 2
LimitDefault == 1000
LimitGe == 1
LimitLe == 10000
AmountGe == 0

\* Field(min_length=..., max_length=...) on an Optional[str]; max_length 0: none.
length_ok(value, min_length, max_length) ==
    \/ value = Absent
    \/ /\ Len(value[1]) >= min_length
       /\ max_length = 0 \/ Len(value[1]) <= max_length

\* Field(ge=...) on an Optional number
ge_ok(value, ge) == value = Absent \/ value[1] >= ge

\* The parameters of the query classes.
StringFields == {"provider", "country", "region"}
BaseFields == StringFields \cup {"start_date", "end_date", "limit"}
FieldsOf(cls) ==
    CASE cls = "PriceQuery" -> BaseFields \cup {"min_price", "max_price"}
      [] cls = "RealEstateQuery" -> BaseFields \cup {"min_bedrooms", "max_bedrooms"}
      [] cls = "AnalyticsQuery" -> BaseFields \cup {"metric"}
      [] cls = "BaseDataQuery" -> BaseFields
Classes == {"PriceQuery", "RealEstateQuery", "AnalyticsQuery"}

\* The raw parameters with nothing supplied.
NoParams ==
    [provider |-> Absent, country |-> Absent, region |-> Absent, start_date |-> Absent,
     end_date |-> Absent, limit |-> Absent, min_price |-> Absent, max_price |-> Absent,
     min_bedrooms |-> Absent, max_bedrooms |-> Absent, metric |-> Absent]

\* The fields whose validation fails: the field validators and constraints first,
\* and the model validators (mode="after") only when every field is valid.
field_errors(cls, raw) ==
    LET n == [f \in StringFields |-> normalize_strings(raw[f])]
    IN  {f \in FieldsOf(cls) :
           \/ f = "provider" /\ ~length_ok(n[f], ProviderMinLength, 0)
           \/ f = "country" /\ ~length_ok(n[f], CountryMinLength, CountryMaxLength)
           \/ f = "region" /\ ~length_ok(n[f], RegionMinLength, 0)
           \/ f = "limit" /\ raw[f] # Absent /\ ~(raw[f][1] >= LimitGe /\ raw[f][1] <= LimitLe)
           \/ f \in {"min_price", "max_price", "min_bedrooms", "max_bedrooms"}
                /\ ~ge_ok(raw[f], AmountGe)}

\* BaseDataQuery.validate_date_range
validate_date_range(q) ==
    ~(q.start_date # Absent /\ q.end_date # Absent /\ q.end_date[1] < q.start_date[1])

\* PriceQuery.validate_price_range
validate_price_range_mut(q) ==
    ~(q.min_price # Absent /\ q.min_price[1] # 0 /\ q.max_price # Absent /\ q.max_price[1] # 0
      /\ q.max_price[1] < q.min_price[1])
validate_price_range(q) ==
    ~(q.min_price # Absent /\ q.max_price # Absent /\ q.max_price[1] < q.min_price[1])

\* RealEstateQuery.validate_bedrooms
validate_bedrooms(q) ==
    ~(q.min_bedrooms # Absent /\ q.max_bedrooms # Absent
      /\ q.max_bedrooms[1] < q.min_bedrooms[1])

\* The model validators of a class that reject the parsed fields.
model_errors(cls, q) ==
    {v \in {"validate_date_range", "validate_price_range", "validate_bedrooms"} :
       \/ v = "validate_date_range" /\ ~validate_date_range(q)
       \/ v = "validate_price_range" /\ cls = "PriceQuery" /\ ~validate_price_range(q)
       \/ v = "validate_bedrooms" /\ cls = "RealEstateQuery" /\ ~validate_bedrooms(q)}

\* cls(**raw): the fields as parsed, and the ValidationError's errors if any.
construct(cls, raw) ==
    LET parsed == [f \in DOMAIN raw |->
                     IF f \in StringFields THEN normalize_strings(raw[f])
                     ELSE IF f = "limit" /\ raw[f] = Absent THEN Some(LimitDefault)
                     ELSE raw[f]]
        ferr == field_errors(cls, raw)
        errors == IF ferr # {} THEN ferr ELSE model_errors(cls, parsed)
    IN  [cls |-> cls, ok |-> errors = {}, errors |-> errors,
         query |-> IF errors = {} THEN parsed ELSE NoParams]

\* The values a client can send.
RECURSIVE StringsUpTo(_)
StringsUpTo(n) ==
    IF n = 0 THEN {<<>>}
    ELSE StringsUpTo(n - 1) \cup {Append(str, c) : str \in StringsUpTo(n - 1), c \in Alphabet}
ValuesOf(field) ==
    CASE field \in StringFields -> StringsUpTo(MaxStrLen)
      [] field = "metric" -> {<<"price">>, <<"value">>}
      [] field \in {"start_date", "end_date"} -> 1..MaxDate
      [] field = "limit" -> {LimitGe - 1, LimitGe, LimitLe, LimitLe + 1}
      [] OTHER -> (AmountGe - 1)..MaxAmount

\* What a request sends for a field: a value when it supplies the field.
Sent(field, S) == IF field \in S THEN {Some(v) : v \in ValuesOf(field)} ELSE {Absent}

\* The raw parameters in which exactly the fields of S are supplied.
Supplied(S) ==
    [provider : Sent("provider", S), country : Sent("country", S), region : Sent("region", S),
     start_date : Sent("start_date", S), end_date : Sent("end_date", S),
     limit : Sent("limit", S), min_price : Sent("min_price", S),
     max_price : Sent("max_price", S), min_bedrooms : Sent("min_bedrooms", S),
     max_bedrooms : Sent("max_bedrooms", S), metric : Sent("metric", S)]

\* A request supplies at most MaxParams of the parameters of the class.
ParamSets(cls) == {S \in SUBSET FieldsOf(cls) : Cardinality(S) <= MaxParams}

NoQuery == [cls |-> "", ok |-> FALSE, errors |-> {}, query |-> NoParams]

QueryIdle ==
    /\ qraw = NoParams
    /\ qres = NoQuery

\* A query object is constructed for a request ...
Construct(cls) ==
    /\ qres = NoQuery
    /\ \E S \in ParamSets(cls) : \E raw \in Supplied(S) :
          /\ qraw' = raw
          /\ qres' = construct(cls, raw)
    /\ UNCHANGED <<clockVars, cacheVars, authVars, fetchVars, ioVars>>

\* ... and discarded after use.
Discard ==
    /\ qres # NoQuery
    /\ qraw' = NoParams
    /\ qres' = NoQuery
    /\ UNCHANGED <<clockVars, cacheVars, authVars, fetchVars, ioVars>>

\* ---------------------------------------------------------- DataRepository

\* The cells of a frame: null, text, a date, a number.
Null == [t |-> "null", s |-> <<>>, n |-> 0]
Str(str) == [t |-> "str", s |-> str, n |-> 0]
Date(d) == [t |-> "date", s |-> <<>>, n |-> d]
Num(x) == [t |-> "num", s |-> <<>>, n |-> x]

\* The columns the repository filters on. A row also carries its position in the
\* dataset under "#", which is no column of the schema.
Columns == {"provider", "country", "region", "date", "price", "bedrooms"}

\* A row every filter value of FetchValue matches ...
PlainRow(pos) ==
    [c \in Columns \cup {"#"} |->
       CASE c = "#" -> Num(pos)
         [] c \in StringFields -> Str(<<"A", "A">>)
         [] c = "date" -> Date(2)
         [] OTHER -> Num(1)]
\* ... and the cells a column can hold instead: other text (the data is not
\* upper-cased), text in the date column, earlier and later dates, smaller and
\* larger numbers.
OtherCells(c) ==
    CASE c \in StringFields -> {Str(<<"a", "a">>)}
      [] c = "date" -> {Str(<<"a">>), Date(1), Date(3)}
      [] OTHER -> {Num(0), Num(2)}
\* The rows at a position: the plain row, or one with one other cell.
RowsAt(pos, schema) ==
    {PlainRow(pos)} \cup
    {[PlainRow(pos) EXCEPT ![c] = v] : <<c, v>> \in UNION {{c} \X OtherCells(c) : c \in schema}}

RECURSIVE RowSeqs(_, _)
RowSeqs(n, schema) ==
    IF n = 0 THEN {<<>>}
    ELSE {Append(rows, r) : rows \in RowSeqs(n - 1, schema), r \in RowsAt(n, schema)}

\* The datasets: every column, or all but one, and up to MaxRows rows.
Schemas == {Columns} \cup {Columns \ {c} : c \in Columns}
Frames ==
    UNION {{[schema |-> sch, rows |-> rows, err |-> ""] : rows \in RowSeqs(n, sch)} :
             <<sch, n>> \in Schemas \X (0..MaxRows)}

\* has_column of _apply_common_filters: name in lf.collect_schema()
has_column_mut(lf, name) == TRUE
has_column(lf, name) == name \in lf.schema

\* A plan that names a column the frame lacks fails when it is collected.
missing_column(lf, name) ==
    IF lf.err # "" \/ name \in lf.schema THEN lf
    ELSE [lf EXCEPT !.rows = <<>>, !.err = "ColumnNotFoundError"]

\* pl.col("date").cast(pl.Date, strict=False): what is no date becomes null.
cast_date(cell) == IF cell.t = "date" THEN cell ELSE Null
with_date(lf) ==
    [lf EXCEPT !.rows = [i \in DOMAIN lf.rows |->
                           [lf.rows[i] EXCEPT !["date"] = cast_date(lf.rows[i]["date"])]]]

\* lf.limit(n)
limit_mut(lf, n) ==
    IF lf.err # "" THEN lf ELSE [lf EXCEPT !.rows = SubSeq(lf.rows, n + 1, Len(lf.rows))]
limit(lf, n) ==
    IF lf.err # "" \/ Len(lf.rows) <= n THEN lf ELSE [lf EXCEPT !.rows = SubSeq(lf.rows, 1, n)]

\* Comparisons of a cell with a literal: a null compares to null and is dropped.
eq(cell, str) == cell.t = "str" /\ cell.s = str
ge_mut(cell, x) == cell.t # "null" /\ cell.n > x
ge(cell, x) == cell.t # "null" /\ cell.n >= x
le_mut(cell, x) == cell.t # "null" /\ cell.n < x
le(cell, x) == cell.t # "null" /\ cell.n <= x

\* lf.filter(pl.col(name) == value), >= value, <= value
filter_eq(lf, name, value) ==
    IF lf.err # "" \/ name \notin lf.schema THEN missing_column(lf, name)
    ELSE [lf EXCEPT !.rows = SelectSeq(lf.rows, LAMBDA r : eq(r[name], value))]
filter_ge(lf, name, value) ==
    IF lf.err # "" \/ name \notin lf.schema THEN missing_column(lf, name)
    ELSE [lf EXCEPT !.rows = SelectSeq(lf.rows, LAMBDA r : ge(r[name], value))]
filter_le(lf, name, value) ==
    IF lf.err # "" \/ name \notin lf.schema THEN missing_column(lf, name)
    ELSE [lf EXCEPT !.rows = SelectSeq(lf.rows, LAMBDA r : le(r[name], value))]

\* The equality filter of _apply_common_filters for one of provider, country, region
filter_field(lf, q, name) ==
    IF q[name] # Absent /\ has_column(lf, name)
      THEN filter_eq(lf, name, q[name][1])
      ELSE lf

\* The date part of _apply_common_filters
filter_dates(lf, q) ==
    IF has_column(lf, "date")
      THEN LET cast == with_date(lf)
               from == IF q.start_date # Absent
                         THEN filter_ge(cast, "date", q.start_date[1])
                         ELSE cast
           IN  IF q.end_date # Absent
                 THEN filter_le(from, "date", q.end_date[1])
                 ELSE from
      ELSE lf

\* DataRepository._apply_common_filters
apply_common_filters(lf, q) ==
    LET filtered ==
          filter_dates(filter_field(filter_field(filter_field(lf, q, "provider"), q, "country"),
                                    q, "region"), q)
    IN  IF q.limit[1] # 0 THEN limit(filtered, q.limit[1]) ELSE filtered

\* The bounds of fetch_prices on price and of fetch_realestate on bedrooms
filter_bounds(lf, name, lo, hi) ==
    IF name \in lf.schema
      THEN LET from == IF lo # Absent THEN filter_ge(lf, name, lo[1]) ELSE lf
           IN  IF hi # Absent THEN filter_le(from, name, hi[1]) ELSE from
      ELSE lf

\* DataRepository.fetch_dataset, fetch_prices, fetch_realestate on the frame read
fetch_dataset(lf, q) == apply_common_filters(lf, q)
fetch_prices(lf, q) ==
    filter_bounds(apply_common_filters(lf, q), "price", q.min_price, q.max_price)
fetch_realestate(lf, q) ==
    filter_bounds(apply_common_filters(lf, q), "bedrooms", q.min_bedrooms, q.max_bedrooms)

\* The values the parameters of a fetch take.
FetchValue(field) ==
    CASE field \in StringFields -> <<" ", "a", "a">>
      [] field \in {"start_date", "end_date"} -> 2
      [] field = "metric" -> <<"price">>
      [] OTHER -> 1
\* The raw parameters of a fetch that supplies the fields of S.
FetchRaw(S) == [f \in DOMAIN NoParams |-> IF f \in S THEN Some(FetchValue(f)) ELSE Absent]

NoFetch == [op |-> "none", query |-> NoParams, rows |-> <<>>, raised |-> ""]

FetchIdle ==
    /\ frame = [schema |-> {}, rows |-> <<>>, err |-> ""]
    /\ fop = NoFetch

\* The content of the dataset in storage.
FetchInit ==
    /\ frame \in Frames
    /\ fop = NoFetch

\* What a call records: the query it was given and what collect() returned.
Called(op, q, result) == [op |-> op, query |-> q, rows |-> result.rows, raised |-> result.err]

\* The queries of a class that the parameters of a fetch construct.
Queries(cls) ==
    {c.query : c \in {d \in {construct(cls, FetchRaw(S)) : S \in ParamSets(cls)} : d.ok}}

\* DataRepository.fetch_dataset(dataset, query)
FetchDataset ==
    /\ fop = NoFetch
    /\ \E q \in Queries("BaseDataQuery") : fop' = Called("fetch_dataset", q, fetch_dataset(frame, q))
    /\ UNCHANGED <<frame, clockVars, cacheVars, authVars, queryVars, ioVars>>

\* DataRepository.fetch_prices(query)
FetchPrices ==
    /\ fop = NoFetch
    /\ \E q \in Queries("PriceQuery") : fop' = Called("fetch_prices", q, fetch_prices(frame, q))
    /\ UNCHANGED <<frame, clockVars, cacheVars, authVars, queryVars, ioVars>>

\* DataRepository.fetch_realestate(query)
FetchRealEstate ==
    /\ fop = NoFetch
    /\ \E q \in Queries("RealEstateQuery") :
         fop' = Called("fetch_realestate", q, fetch_realestate(frame, q))
    /\ UNCHANGED <<frame, clockVars, cacheVars, authVars, queryVars, ioVars>>

\* The rows are returned to the caller.
Return ==
    /\ fop # NoFetch
    /\ fop' = NoFetch
    /\ UNCHANGED <<frame, clockVars, cacheVars, authVars, queryVars, ioVars>>

\* ------------------------------------------- provider summary and listing

\* Code points of the characters that occur in provider names.
ord(c) == CASE c = " " -> 32 [] c = "A" -> 65 [] c = "a" -> 97 [] OTHER -> 0

\* The order of sort("provider"): strings by code point, nulls first.
RECURSIVE str_lt(_, _)
str_lt(a, b) ==
    IF b = <<>> THEN FALSE
    ELSE IF a = <<>> THEN TRUE
    ELSE IF a[1] = b[1] THEN str_lt(Tail(a), Tail(b))
    ELSE ord(a[1]) < ord(b[1])
cell_lt(x, y) == IF x.t = "null" THEN y.t # "null" ELSE y.t # "null" /\ str_lt(x.s, y.s)

\* .sort(...) of distinct cells, ascending
RECURSIVE sort_mut(_)
sort_mut(cells) ==
    IF cells = {} THEN <<>>
    ELSE LET last == CHOOSE x \in cells : \A y \in cells \ {x} : cell_lt(y, x)
         IN  <<last>> \o sort_mut(cells \ {last})
RECURSIVE sort(_)
sort(cells) ==
    IF cells = {} THEN <<>>
    ELSE LET first == CHOOSE x \in cells : \A y \in cells \ {x} : cell_lt(x, y)
         IN  <<first>> \o sort(cells \ {first})

\* The keys of group_by(name), and of select(name).unique()
unique(rows, name) == {rows[i][name] : i \in DOMAIN rows}

\* pl.col(name).sum() over the rows of a group
RECURSIVE col_sum(_, _)
col_sum(rows, name) ==
    IF rows = <<>> THEN 0 ELSE Head(rows)[name].n + col_sum(Tail(rows), name)

\* A column name as the query carries it: a string, here one token or empty.
ColumnName(str) == IF Len(str) = 1 THEN str[1] ELSE ""

\* query.metric or ("price" if "price" in schema else "value")
metric_column_mut(lf, q) == IF "price" \in lf.schema THEN "price" ELSE "value"
metric_column(lf, q) ==
    IF q.metric # Absent /\ q.metric[1] # <<>> THEN ColumnName(q.metric[1])
    ELSE IF "price" \in lf.schema THEN "price" ELSE "value"

\* group_by("provider").agg(mean, sum, len).sort("provider"); avg is total / count.
aggregate(lf, metric) ==
    IF lf.err # "" \/ "provider" \notin lf.schema THEN missing_column(lf, "provider")
    ELSE LET keys == sort(unique(lf.rows, "provider"))
         IN  [lf EXCEPT !.rows =
                [k \in DOMAIN keys |->
                   LET group == SelectSeq(lf.rows, LAMBDA r : r["provider"] = keys[k])
                   IN  [provider |-> keys[k],
                        avg |-> <<col_sum(group, metric), Len(group)>>,
                        total |-> col_sum(group, metric),
                        count |-> Len(group)]]]

\* DataRepository.fetch_provider_summary on the frame read
fetch_provider_summary(lf, q) ==
    LET filtered == apply_common_filters(lf, q)
        metric == metric_column(filtered, q)
    IN  IF metric \notin filtered.schema
          THEN [filtered EXCEPT !.rows = <<>>, !.err = "DataAccessError"]
          ELSE aggregate(filtered, metric)

\* DataRepository.list_providers on the frame read
list_providers_mut(lf) ==
    IF "provider" \notin lf.schema
      THEN [lf EXCEPT !.rows = <<>>, !.err = "DataAccessError"]
      ELSE [lf EXCEPT !.rows = [i \in DOMAIN lf.rows |-> lf.rows[i]["provider"]]]
list_providers(lf) ==
    IF "provider" \notin lf.schema
      THEN [lf EXCEPT !.rows = <<>>, !.err = "DataAccessError"]
      ELSE [lf EXCEPT !.rows = sort(unique(lf.rows, "provider"))]

\* The datasets a summary or a listing reads: the columns of the prices dataset and
\* a value column, of which provider, price, value or price and value may be missing.
SummaryColumns == {"provider", "country", "date", "price", "value"}
SummarySchemas ==
    {SummaryColumns \ M : M \in {{}, {"provider"}, {"price"}, {"value"}, {"price", "value"}}}

\* A row as PlainRow with a value, or with one other cell.
SummaryRow(pos) ==
    [c \in DOMAIN PlainRow(pos) \cup {"value"} |-> IF c = "value" THEN Num(1) ELSE PlainRow(pos)[c]]
SummaryCells(c) ==
    CASE c = "provider" -> {Str(<<"a", "a">>), Str(<<"A">>), Null}
      [] c = "country" -> {Str(<<"a", "a">>)}
      [] c \in {"price", "value"} -> {Num(0), Num(2)}
      [] OTHER -> {}
SummaryRowsAt(pos, schema) ==
    {SummaryRow(pos)} \cup
    {[SummaryRow(pos) EXCEPT ![c] = v] :
       <<c, v>> \in UNION {{c} \X SummaryCells(c) : c \in schema}}

RECURSIVE SummaryRowSeqs(_, _)
SummaryRowSeqs(n, schema) ==
    IF n = 0 THEN {<<>>}
    ELSE {Append(rows, r) : rows \in SummaryRowSeqs(n - 1, schema), r \in SummaryRowsAt(n, schema)}

SummaryFrames ==
    UNION {{[schema |-> sch, rows |-> rows, err |-> ""] : rows \in SummaryRowSeqs(n, sch)} :
             <<sch, n>> \in SummarySchemas \X (0..MaxRows)}

SummaryInit ==
    /\ frame \in SummaryFrames
    /\ fop = NoFetch

\* What a client sends as metric: nothing, the empty string, a column name.
MetricValues == {Absent, Some(<<>>), Some(<<"price">>), Some(<<"value">>)}

\* The analytics queries that the parameters of a request construct.
SummaryQueries ==
    {c.query : c \in {d \in {construct("AnalyticsQuery", [FetchRaw(S) EXCEPT !.metric = m]) :
                               S \in ParamSets("BaseDataQuery"), m \in MetricValues} : d.ok}}

\* DataRepository.fetch_provider_summary(dataset, query)
FetchProviderSummary ==
    /\ fop = NoFetch
    /\ \E q \in SummaryQueries :
         fop' = Called("fetch_provider_summary", q, fetch_provider_summary(frame, q))
    /\ UNCHANGED <<frame, clockVars, cacheVars, authVars, queryVars, ioVars>>

\* DataRepository.list_providers()
ListProviders ==
    /\ fop = NoFetch
    /\ fop' = Called("list_providers", NoParams, list_providers(frame))
    /\ UNCHANGED <<frame, clockVars, cacheVars, authVars, queryVars, ioVars>>

\* ------------------------------------------------------------ dataset loading

\* The dataset the handlers read, the parquet files that can exist under its root
\* and str(p) of each, as root.rglob("*.parquet") yields it.
Dataset == <<"prices">>
FileNames == {"a", "b"}
PathOf(f) == Dataset \o <<"/", f>>
LocalPaths == {PathOf(f) : f \in FileNames}
\* A path that is a URL.
RemotePath == <<"a", ":", "/", "/", "b">>
SourcePaths == LocalPaths \cup {RemotePath}

\* DataRepository._cache_key_for_path
cache_key_for_path(path) == <<"parquet_">> \o path

\* resolved.exists() for the path _resolve_source returns: the path is one of the
\* files on disk.
source_exists(path, here) == \E f \in here : path = PathOf(f)

\* resolved.read_bytes(), response.content: the bytes belong to the path.
content(path) == [fmt |-> "raw", doc |-> path]

\* requests.get(path, timeout=30) and raise_for_status(): a local path is no URL
\* (MissingSchema, a RequestException); for a URL the network decides.
NetOutcomes == {"ok", "fail"}
http_get(path, net) == IF path \in LocalPaths THEN "fail" ELSE net

\* The path a resolution returns: cache.path_for_key(cache_key).
cache_path(path) == [dir |-> "cache", name |-> key_path(cache_key_for_path(path))]
NoPath == [dir |-> "", name |-> <<>>]

\* DataRepository._download_to_cache: the cache directory afterwards, the path
\* returned, the exception raised and its cause, the calls of requests.get.
download_to_cache_mut(files, path, t, ttl, here, net) ==
    IF is_fresh(files, cache_key_for_path(path), t, ttl)
      THEN [files |-> files, local |-> cache_path(path), raised |-> "", cause |-> "", requests |-> 0]
    ELSE IF source_exists(path, here)
      THEN [files |-> write_file(files, key_path(cache_key_for_path(path)), content(path), t),
            local |-> cache_path(path), raised |-> "", cause |-> "", requests |-> 0]
    ELSE IF http_get(path, net) = "ok"
      THEN [files |-> write_file(files, key_path(cache_key_for_path(path)), content(path), t),
            local |-> cache_path(path), raised |-> "", cause |-> "", requests |-> 1]
    ELSE [files |-> files, local |-> NoPath, raised |-> "DataAccessError",
          cause |-> "RequestException", requests |-> 2]
download_to_cache(files, path, t, ttl, here, net) ==
    IF is_fresh(files, cache_key_for_path(path), t, ttl)
      THEN [files |-> files, local |-> cache_path(path), raised |-> "", cause |-> "", requests |-> 0]
    ELSE IF source_exists(path, here)
      THEN [files |-> write_file(files, key_path(cache_key_for_path(path)), content(path), t),
            local |-> cache_path(path), raised |-> "", cause |-> "", requests |-> 0]
    ELSE IF http_get(path, net) = "ok"
      THEN [files |-> write_file(files, key_path(cache_key_for_path(path)), content(path), t),
            local |-> cache_path(path), raised |-> "", cause |-> "", requests |-> 1]
    ELSE [files |-> files, local |-> NoPath, raised |-> "DataAccessError",
          cause |-> "RequestException", requests |-> 1]

\* [self._download_to_cache(path) for path in ...]: the first failure ends it.
RECURSIVE resolve_paths_mut(_, _, _, _, _, _)
resolve_paths_mut(files, paths, t, ttl, here, net) ==
    IF paths = <<>>
      THEN [files |-> files, locals |-> <<>>, raised |-> "", cause |-> "", requests |-> 0]
      ELSE LET d == download_to_cache(files, Head(paths), t, ttl, here, net)
               r == resolve_paths_mut(d.files, Tail(paths), t, ttl, here, net)
           IN  [files |-> r.files,
                locals |-> IF d.raised = "" THEN <<d.local>> \o r.locals ELSE r.locals,
                raised |-> r.raised, cause |-> r.cause, requests |-> d.requests + r.requests]
RECURSIVE resolve_paths(_, _, _, _, _, _)
resolve_paths(files, paths, t, ttl, here, net) ==
    IF paths = <<>>
      THEN [files |-> files, locals |-> <<>>, raised |-> "", cause |-> "", requests |-> 0]
      ELSE LET d == download_to_cache(files, Head(paths), t, ttl, here, net)
               r == resolve_paths(d.files, Tail(paths), t, ttl, here, net)
           IN  IF d.raised # ""
                 THEN [files |-> d.files, locals |-> <<>>, raised |-> d.raised,
                       cause |-> d.cause, requests |-> d.requests]
                 ELSE [files |-> r.files,
                       locals |-> IF r.raised = "" THEN <<d.local>> \o r.locals ELSE <<>>,
                       raised |-> r.raised, cause |-> r.cause,
                       requests |-> d.requests + r.requests]

\* What a load or a resolution records.
NoLoad == [op |-> "none", at |-> 0, root |-> FALSE, present |-> {}, pre |-> <<>>,
           path |-> <<>>, net |-> "", used |-> <<>>, scanned |-> <<>>, local |-> NoPath,
           raised |-> "", message |-> "", cause |-> "", loaderCalls |-> 0, requests |-> 0]

\* DataRepository._read_lazyframe with _list_parquet_files: the loader lists the
\* files under the root as `listing`, or raises when the root does not exist.
read_lazyframe_mut(files, t, ttl, exists, listing, here, net) ==
    LET g == get_or_set_json(files, ListKey(Dataset), t, ttl, PyList(listing), ~exists)
        r == resolve_paths(g.files, g.val.items, t, ttl, here, net)
    IN  IF g.raised # ""
          THEN [NoLoad EXCEPT !.pre = g.files, !.raised = "DataAccessError",
                              !.message = "Dataset path not found",
                              !.loaderCalls = g.loaderCalls]
        ELSE IF r.raised # ""
          THEN [NoLoad EXCEPT !.pre = r.files, !.used = g.val.items, !.raised = r.raised,
                              !.message = "Failed to download parquet", !.cause = r.cause,
                              !.loaderCalls = g.loaderCalls, !.requests = r.requests]
        ELSE [NoLoad EXCEPT !.pre = r.files, !.used = g.val.items, !.scanned = r.locals,
                            !.loaderCalls = g.loaderCalls, !.requests = r.requests]
read_lazyframe(files, t, ttl, exists, listing, here, net) ==
    LET g == get_or_set_json(files, ListKey(Dataset), t, ttl, PyList(listing), ~exists)
        r == resolve_paths(g.files, g.val.items, t, ttl, here, net)
    IN  IF g.raised # ""
          THEN [NoLoad EXCEPT !.pre = g.files, !.raised = "DataAccessError",
                              !.message = "Dataset path not found",
                              !.loaderCalls = g.loaderCalls]
        ELSE IF r.raised # ""
          THEN [NoLoad EXCEPT !.pre = r.files, !.used = g.val.items, !.raised = r.raised,
                              !.message = "Failed to download parquet", !.cause = r.cause,
                              !.loaderCalls = g.loaderCalls, !.requests = r.requests]
        ELSE IF r.locals = <<>>
          THEN [NoLoad EXCEPT !.pre = r.files, !.used = g.val.items,
                              !.raised = "DataAccessError",
                              !.message = "No parquet files available",
                              !.loaderCalls = g.loaderCalls, !.requests = r.requests]
        ELSE [NoLoad EXCEPT !.pre = r.files, !.used = g.val.items, !.scanned = r.locals,
                            !.loaderCalls = g.loaderCalls, !.requests = r.requests]

\* The orders in which rglob can yield the files.
Listings(here) ==
    {listing \in [1..Cardinality(here) -> {PathOf(f) : f \in here}] :
       \A i, j \in DOMAIN listing : i # j => listing[i] # listing[j]}

LoadIdle ==
    /\ root = FALSE
    /\ present = {}
    /\ lop = NoLoad

\* A data directory in which the dataset may not exist yet.
LoadInit ==
    /\ root \in BOOLEAN
    /\ present = {}
    /\ lop = NoLoad

\* The cleaning job creates the dataset root, lands a file; somebody removes a
\* file, or the root with everything under it.
CreateRoot ==
    /\ lop = NoLoad
    /\ ~root
    /\ root' = TRUE
    /\ UNCHANGED <<present, lop, clockVars, cacheVars, authVars, queryVars, fetchVars, raceVars, pocVars>>
Land(f) ==
    /\ lop = NoLoad
    /\ root
    /\ f \notin present
    /\ present' = present \cup {f}
    /\ UNCHANGED <<root, lop, clockVars, cacheVars, authVars, queryVars, fetchVars, raceVars, pocVars>>
Remove(f) ==
    /\ lop = NoLoad
    /\ f \in present
    /\ present' = present \ {f}
    /\ UNCHANGED <<root, lop, clockVars, cacheVars, authVars, queryVars, fetchVars, raceVars, pocVars>>
RemoveRoot ==
    /\ lop = NoLoad
    /\ root
    /\ root' = FALSE
    /\ present' = {}
    /\ UNCHANGED <<lop, clockVars, cacheVars, authVars, queryVars, fetchVars, raceVars, pocVars>>

\* self._read_lazyframe(dataset), the first step of every fetch
ReadLazyframe ==
    /\ lop = NoLoad
    /\ \E listing \in Listings(present) :
         LET r == read_lazyframe(cacheFiles, now, ttl_seconds, root, listing, present, "fail")
         IN  /\ cacheFiles' = r.pre
             /\ lop' = [r EXCEPT !.op = "read_lazyframe", !.at = now, !.root = root,
                                 !.present = present, !.pre = cacheFiles]
    /\ UNCHANGED <<root, present, written, cop, clockVars, authVars, queryVars, fetchVars, raceVars, pocVars>>

\* self._download_to_cache(path) on its own
DownloadToCache(path, net) ==
    /\ lop = NoLoad
    /\ LET d == download_to_cache(cacheFiles, path, now, ttl_seconds, present, net)
       IN  /\ cacheFiles' = d.files
           /\ lop' = [NoLoad EXCEPT !.op = "download_to_cache", !.at = now, !.root = root,
                                    !.present = present, !.pre = cacheFiles, !.path = path,
                                    !.net = IF d.requests > 0 THEN http_get(path, net) ELSE "",
                                    !.local = d.local, !.raised = d.raised, !.cause = d.cause,
                                    !.message = IF d.raised = "" THEN ""
                                                ELSE "Failed to download parquet",
                                    !.requests = d.requests]
    /\ UNCHANGED <<root, present, written, cop, clockVars, authVars, queryVars, fetchVars, raceVars, pocVars>>

\* ------------------------------------- concurrent calls of get_or_set_json

\* The threads of the worker pool that serve requests at the same time.
Threads == {"t1", "t2"}

\* The key all of them use: f"list_{dataset}".
RaceKey == ListKey(Dataset)

\* What the loader returns to a thread: the listing with no file or with one.
RaceLoads == {PyList(<<>>), PyList(<<"f1">>)}

\* json.dumps(data, default=str).encode("utf-8") as the bytes that reach the file:
\* the brackets of the array around its items.
encode(data) == <<"[">> \o data.items \o <<"]">>

\* json.loads on the bytes of the file: an array, or JSONDecodeError on anything
\* else (an empty file, text after the closing bracket).
well_formed(bytes) ==
    /\ Len(bytes) >= 2
    /\ bytes[1] = "["
    /\ bytes[Len(bytes)] = "]"
    /\ \A i \in 2..(Len(bytes) - 1) : bytes[i] \notin {"[", "]"}
decode(bytes) ==
    IF well_formed(bytes)
      THEN [val |-> PyList(SubSeq(bytes, 2, Len(bytes) - 1)), raised |-> ""]
      ELSE [val |-> PyNone, raised |-> "JSONDecodeError"]

\* path.write_bytes(data) is open(path, "wb") followed by write(data) and close.
\* open: the file is created or cut to length 0, and its mtime is now.
open_wb(files, path, t) == write_file(files, path, <<>>, t)
\* write: the bytes go to offset 0 of the handle, over what the file holds by
\* then; bytes another handle wrote beyond them stay.
write_at_start(files, path, bytes, t) ==
    LET old == IF path \in DOMAIN files THEN files[path].data ELSE <<>>
    IN  write_file(files, path, bytes \o SubSeq(old, Len(bytes) + 1, Len(old)), t)

\* A thread outside get_or_set_json.
IdleThread == [pc |-> "idle", loaded |-> PyNone, val |-> PyNone, raised |-> ""]

RaceIdle == threads = <<>>

RaceInit ==
    /\ cacheFiles = <<>>
    /\ written = <<>>
    /\ cop = NoCacheOp
    /\ threads = [t \in Threads |-> IdleThread]

\* A request reaches get_or_set_json(key, loader).
Call(t) ==
    /\ threads[t].pc = "idle"
    /\ threads' = [threads EXCEPT ![t].pc = "check"]
    /\ UNCHANGED <<clockVars, cacheVars, authVars, queryVars, fetchVars, loadVars, pocVars>>

\* if self.is_fresh(key):
Check(t) ==
    /\ threads[t].pc = "check"
    /\ threads' = [threads EXCEPT ![t].pc =
                     IF is_fresh(cacheFiles, RaceKey, now, ttl_seconds) THEN "read" ELSE "load"]
    /\ UNCHANGED <<clockVars, cacheVars, authVars, queryVars, fetchVars, loadVars, pocVars>>

\* return self.read_json(key)
ReadJson(t) ==
    /\ threads[t].pc = "read"
    /\ LET r == decode(cacheFiles[key_path(RaceKey)].data)
       IN  threads' = [threads EXCEPT ![t].pc = "done", ![t].val = r.val,
                                      ![t].raised = r.raised]
    /\ UNCHANGED <<clockVars, cacheVars, authVars, queryVars, fetchVars, loadVars, pocVars>>

\* data = loader()
Load(t, loaded) ==
    /\ threads[t].pc = "load"
    /\ threads' = [threads EXCEPT ![t].pc = "open", ![t].loaded = loaded]
    /\ UNCHANGED <<clockVars, cacheVars, authVars, queryVars, fetchVars, loadVars, pocVars>>

\* self.write_json(key, data), first half: the file is opened for writing.
OpenFile(t) ==
    /\ threads[t].pc = "open"
    /\ cacheFiles' = open_wb(cacheFiles, key_path(RaceKey), now)
    /\ threads' = [threads EXCEPT ![t].pc = "write"]
    /\ UNCHANGED <<written, cop, clockVars, authVars, queryVars, fetchVars, loadVars, pocVars>>

\* self.write_json(key, data), second half: the bytes are written and the
\* call returns the loader's result.
WriteFile(t) ==
    /\ threads[t].pc = "write"
    /\ cacheFiles' = write_at_start(cacheFiles, key_path(RaceKey),
                                    encode(threads[t].loaded), now)
    /\ threads' = [threads EXCEPT ![t].pc = "done", ![t].val = threads[t].loaded]
    /\ UNCHANGED <<written, cop, clockVars, authVars, queryVars, fetchVars, loadVars, pocVars>>

\* The caller has the value, or the exception, and the thread is free again.
Finish(t) ==
    /\ threads[t].pc = "done"
    /\ threads' = [threads EXCEPT ![t] = IdleThread]
    /\ UNCHANGED <<clockVars, cacheVars, authVars, queryVars, fetchVars, loadVars, pocVars>>

\* ------------------------------------------------- the file a key names

\* Keys character by character: a letter, the dot, the separator and the dash.
KeyChars == {"a", ".", "/", "-"}
KeyStrings == UNION {[1..n -> KeyChars] : n \in 0..MaxStrLen}

\* self.base_path / safe_key, relative to the cache directory: pathlib drops an
\* empty name and a "." component, which leaves the directory itself, and keeps
\* "..", which is its parent; any other name without a separator is an entry of
\* the directory.
location(key) ==
    CASE key_path(key) \in {<<>>, <<".">>} -> "base"
      [] key_path(key) = <<".", ".">> -> "parent"
      [] \E i \in DOMAIN key_path(key) : key_path(key)[i] = "/" -> "nested"
      [] OTHER -> "child"

\* CacheManager.path_for_key(key)
PathForKey(key) ==
    /\ cop' = [NoCacheOp EXCEPT !.op = "path_for_key", !.key = key, !.at = now]
    /\ UNCHANGED <<cacheFiles, written, clockVars, authVars, queryVars, fetchVars, ioVars>>

\* ------------------------------------------------------- LocalObjectStore

\* Object keys as the components pathlib splits them into at "/": one key names
\* the parent of another, as "raw/sample" does for "raw/sample/data.txt".
StoreKeys == {<<"raw">>, <<"raw", "data">>, <<"data">>}
StoreData == {"hello", "bye"}

\* The directory base_path / bucket before any call: nothing exists.
NoObjects == [files |-> <<>>, dirs |-> {}]

\* The prefixes of a path, the bucket directory <<>> included.
ancestors(path) == {SubSeq(path, 1, n) : n \in 0..Len(path)}

\* LocalObjectStore._resolve: path.parent.mkdir(parents=True, exist_ok=True) makes
\* every missing directory above the path, and raises when a file is in the way.
resolve(fs, key) ==
    LET parent == SubSeq(key, 1, Len(key) - 1)
    IN  IF \E p \in ancestors(parent) : p \in DOMAIN fs.files
          THEN [fs |-> fs,
                raised |-> IF parent \in DOMAIN fs.files THEN "FileExistsError"
                           ELSE "NotADirectoryError"]
          ELSE [fs |-> [fs EXCEPT !.dirs = fs.dirs \cup ancestors(parent)], raised |-> ""]

\* LocalObjectStore.put_object(key, data)
put_object(fs, key, data) ==
    LET r == resolve(fs, key)
    IN  IF r.raised # "" THEN r
        ELSE IF key \in r.fs.dirs THEN [fs |-> r.fs, raised |-> "IsADirectoryError"]
        ELSE [fs |-> [r.fs EXCEPT !.files = (key :> data) @@ r.fs.files], raised |-> ""]

\* LocalObjectStore.get_object(key)
get_object(fs, key) ==
    LET r == resolve(fs, key)
    IN  IF r.raised # "" THEN [fs |-> r.fs, raised |-> r.raised, val |-> ""]
        ELSE IF key \in r.fs.dirs
          THEN [fs |-> r.fs, raised |-> "IsADirectoryError", val |-> ""]
        ELSE IF key \notin DOMAIN r.fs.files
          THEN [fs |-> r.fs, raised |-> "FileNotFoundError", val |-> ""]
        ELSE [fs |-> r.fs, raised |-> "", val |-> r.fs.files[key]]

\* The last call, with the history of the store: for each key the bytes of the
\* last put_object that returned ("" while there was none).
NoStoreOp == [op |-> "none", key |-> <<>>, data |-> "", raised |-> "", val |-> "",
              pre |-> NoObjects, puts |-> [k \in StoreKeys |-> ""]]

StoreInit ==
    /\ objects = NoObjects
    /\ sop = NoStoreOp

PutObject(key, data) ==
    LET r == put_object(objects, key, data)
    IN  /\ objects' = r.fs
        /\ sop' = [op |-> "put_object", key |-> key, data |-> data, raised |-> r.raised,
                   val |-> "", pre |-> sop.puts,
                   puts |-> IF r.raised = "" THEN [sop.puts EXCEPT ![key] = data] ELSE sop.puts]
        /\ UNCHANGED <<clockVars, cacheVars, authVars, queryVars, fetchVars, loadVars, raceVars,
                       retryVars, cleanVars>>

GetObject(key) ==
    LET r == get_object(objects, key)
    IN  /\ objects' = r.fs
        /\ sop' = [op |-> "get_object", key |-> key, data |-> "", raised |-> r.raised,
                   val |-> r.val, pre |-> sop.puts, puts |-> sop.puts]
        /\ UNCHANGED <<clockVars, cacheVars, authVars, queryVars, fetchVars, loadVars, raceVars,
                       retryVars, cleanVars>>

\* ------------------------------------------------------------------ retry

\* RetryConfig(attempts, backoff_seconds): attempts may be zero or negative.
Attempts == -1..MaxAttempts
Backoffs == 0..MaxBackoff

\* What one invocation of the wrapped function does: it returns, or it raises an
\* exception of some class under Exception.
Outcomes == {"ok", "IOError", "ValueError"}

\* wrapper(*args, **kwargs) at its start: attempt = 0, nothing invoked yet. `log`
\* is the history of the invocations, `slept` the seconds spent in time.sleep.
wrapper(attempts, backoff) ==
    [pc |-> "invoke", attempts |-> attempts, backoff |-> backoff, attempt |-> 0,
     log |-> <<>>, result |-> 0, raised |-> 0, exc |-> "", slept |-> 0]

\* One pass of the loop body: the invocation returns and the wrapper returns its
\* result (the number of the invocation stands for it); or it raises, attempt is
\* incremented, and the exception is raised again when attempt >= config.attempts,
\* else the wrapper sleeps backoff_seconds * attempt.
invoke_mut(c, outcome) ==
    LET n == Len(c.log) + 1
    IN  IF outcome = "ok"
          THEN [c EXCEPT !.pc = "returned", !.log = Append(c.log, outcome), !.result = n]
        ELSE IF c.attempt + 1 > c.attempts
          THEN [c EXCEPT !.pc = "raised", !.log = Append(c.log, outcome),
                         !.attempt = c.attempt + 1, !.raised = n, !.exc = outcome]
        ELSE [c EXCEPT !.pc = "sleep", !.log = Append(c.log, outcome),
                       !.attempt = c.attempt + 1]
invoke(c, outcome) ==
    LET n == Len(c.log) + 1
    IN  IF outcome = "ok"
          THEN [c EXCEPT !.pc = "returned", !.log = Append(c.log, outcome), !.result = n]
        ELSE IF c.attempt + 1 >= c.attempts
          THEN [c EXCEPT !.pc = "raised", !.log = Append(c.log, outcome),
                         !.attempt = c.attempt + 1, !.raised = n, !.exc = outcome]
        ELSE [c EXCEPT !.pc = "sleep", !.log = Append(c.log, outcome),
                       !.attempt = c.attempt + 1]

NoCall == [pc |-> "none", attempts |-> 0, backoff |-> 0, attempt |-> 0,
           log |-> <<>>, result |-> 0, raised |-> 0, exc |-> "", slept |-> 0]

RetryInit == rcall = NoCall

\* The wrapped function is called.
CallWrapped(attempts, backoff) ==
    /\ rcall.pc = "none"
    /\ rcall' = wrapper(attempts, backoff)
    /\ UNCHANGED <<clockVars, cacheVars, authVars, queryVars, fetchVars, loadVars, raceVars,
                   storeVars, cleanVars>>

\* return func(*args, **kwargs), and the except clause when it raises
Invoke(outcome) ==
    /\ rcall.pc = "invoke"
    /\ rcall' = invoke(rcall, outcome)
    /\ UNCHANGED <<clockVars, cacheVars, authVars, queryVars, fetchVars, loadVars, raceVars,
                   storeVars, cleanVars>>

\* time.sleep(sleep_for), and the loop goes round
Sleep ==
    /\ rcall.pc = "sleep"
    /\ rcall' = [rcall EXCEPT !.pc = "invoke",
                              !.slept = rcall.slept + rcall.backoff * rcall.attempt]
    /\ UNCHANGED <<clockVars, cacheVars, authVars, queryVars, fetchVars, loadVars, raceVars,
                   storeVars, cleanVars>>

\* The caller has the result or the exception.
CallEnds ==
    /\ rcall.pc \in {"returned", "raised"}
    /\ rcall' = NoCall
    /\ UNCHANGED <<clockVars, cacheVars, authVars, queryVars, fetchVars, loadVars, raceVars,
                   storeVars, cleanVars>>

\* -------------------------------------------------------- cleaning service

\* Raw objects in the order list_objects_v2 yields them, and whether the key ends
\* with ".json".
RawOrder == <<"raw/a.json", "raw/b.json", "raw/c.txt">>
RawKeys == {RawOrder[i] : i \in DOMAIN RawOrder}
ends_json(key) == key \in {"raw/a.json", "raw/b.json"}

\* What a raw object holds: records of which at least one normalizes (prices,
\* realestate), records of the providers domain, which normalize to rows without
\* captured_at, or no record that normalizes.
Envelopes == {"valid", "providers", "novalid"}

\* The bucket: raw objects, the keys whose clean JSON and parquet outputs were
\* uploaded, the raw_key entries of the processed manifest, and the raw keys
\* that landed since the last run started.
EmptyBucket == [raw |-> <<>>, json |-> {}, parquet |-> {}, manifest |-> <<>>, landed |-> {}]

\* MinioClient.list_prefix("raw/")
list_prefix(b) == SelectSeq(RawOrder, LAMBDA key : key \in DOMAIN b.raw)

\* MinioClient.list_unprocessed("raw/", MANIFEST_KEY)
list_unprocessed(b) ==
    SelectSeq(list_prefix(b), LAMBDA key : \A i \in DOMAIN b.manifest : b.manifest[i] # key)

\* fetch_raw_keys()
fetch_raw_keys(b) == SelectSeq(list_unprocessed(b), ends_json)

\* MinioClient.write_manifest_entry(MANIFEST_KEY, raw_key)
write_manifest_entry(b, key) == [b EXCEPT !.manifest = Append(b.manifest, key)]

\* run_cleaning outside a run. `completed` tells whether the last run returned.
NoRun == [pc |-> "none", pending |-> <<>>, found |-> <<>>, recorded |-> <<>>,
          since |-> {}, after |-> FALSE, completed |-> FALSE]

CleanInit ==
    /\ bucket = EmptyBucket
    /\ run = NoRun

\* A scraper uploads a raw object under a key that is not there yet.
LandRaw(key, envelope) ==
    /\ key \notin DOMAIN bucket.raw
    /\ bucket' = [bucket EXCEPT !.raw = (key :> envelope) @@ bucket.raw,
                                !.landed = bucket.landed \cup {key}]
    /\ UNCHANGED <<run, clockVars, cacheVars, authVars, queryVars, fetchVars, loadVars, raceVars,
                   storeVars, retryVars>>

\* run_cleaning(): for raw_key in fetch_raw_keys(). The run remembers what it
\* found, what the manifest held, what landed since the run before and whether
\* that run returned.
StartRun ==
    /\ run.pc = "none"
    /\ run' = [pc |-> "loop", pending |-> fetch_raw_keys(bucket),
               found |-> fetch_raw_keys(bucket), recorded |-> bucket.manifest,
               since |-> bucket.landed, after |-> run.completed, completed |-> FALSE]
    /\ bucket' = [bucket EXCEPT !.landed = {}]
    /\ UNCHANGED <<clockVars, cacheVars, authVars, queryVars, fetchVars, loadVars, raceVars,
                   storeVars, retryVars>>

\* process_raw_key(raw_key): no record normalizes, `if not cleaned: return {}`.
NoValidRecords ==
    /\ run.pc = "loop"
    /\ run.pending # <<>>
    /\ bucket.raw[Head(run.pending)] = "novalid"
    /\ run' = [run EXCEPT !.pending = Tail(run.pending)]
    /\ UNCHANGED <<bucket, clockVars, cacheVars, authVars, queryVars, fetchVars, loadVars,
                   raceVars, storeVars, retryVars>>

\* process_raw_key(raw_key): write_outputs uploads the JSON, and then the parquet
\* unless df["captured_at"] raises KeyError, as it does for providers rows.
WriteOutputs ==
    /\ run.pc = "loop"
    /\ run.pending # <<>>
    /\ bucket.raw[Head(run.pending)] # "novalid"
    /\ IF bucket.raw[Head(run.pending)] = "providers"
         THEN /\ bucket' = [bucket EXCEPT !.json = bucket.json \cup {Head(run.pending)}]
              /\ run' = [run EXCEPT !.pc = "raised"]
         ELSE /\ bucket' = [bucket EXCEPT !.json = bucket.json \cup {Head(run.pending)},
                                          !.parquet = bucket.parquet \cup {Head(run.pending)}]
              /\ run' = [run EXCEPT !.pc = "record"]
    /\ UNCHANGED <<clockVars, cacheVars, authVars, queryVars, fetchVars, loadVars, raceVars,
                   storeVars, retryVars>>

\* process_raw_key(raw_key): client.write_manifest_entry(MANIFEST_KEY, raw_key)
WriteManifestEntry ==
    /\ run.pc = "record"
    /\ bucket' = write_manifest_entry(bucket, Head(run.pending))
    /\ run' = [run EXCEPT !.pc = "loop", !.pending = Tail(run.pending)]
    /\ UNCHANGED <<clockVars, cacheVars, authVars, queryVars, fetchVars, loadVars, raceVars,
                   storeVars, retryVars>>

\* run_cleaning returns, or the exception of process_raw_key ends it.
EndRun ==
    /\ \/ run.pc = "loop" /\ run.pending = <<>>
       \/ run.pc = "raised"
    /\ run' = [NoRun EXCEPT !.completed = (run.pc = "loop")]
    /\ UNCHANGED <<bucket, clockVars, cacheVars, authVars, queryVars, fetchVars, loadVars,
                   raceVars, storeVars, retryVars>>

\* The components of the proof-of-concept data layer at rest.
StoreIdle == objects = <<>> /\ sop = <<>>
RetryIdle == rcall = <<>>
CleanIdle == bucket = <<>> /\ run = <<>>
PocIdle == StoreIdle /\ RetryIdle /\ CleanIdle

\* ---------------------------------------------------------- specifications

InitCache == ClockInit /\ CacheInit /\ AuthIdle /\ QueryIdle /\ FetchIdle /\ LoadIdle /\ RaceIdle /\ PocIdle

NextCache ==
    \/ Tick
    \/ \E k \in Keys : IsFresh(k)
    \/ \E k \in ByteKeys, d \in ByteValues : WriteBytes(k, d)
    \/ \E k \in JsonKeys, v \in LoaderValues, r \in BOOLEAN : GetOrSetJson(k, v, r)
    \/ \E k \in Keys : InvalidateIfExpired(k)

SpecCache == InitCache /\ [][NextCache]_vars

InitAuth == ClockInit /\ AuthInit /\ CacheIdle /\ QueryIdle /\ FetchIdle /\ LoadIdle /\ RaceIdle /\ PocIdle

NextAuth ==
    \/ Tick
    \/ NewProvider
    \/ \E c \in Credentials, v \in VaultOutcomes : Validate(c, v)

SpecAuth == InitAuth /\ [][NextAuth]_vars

NextGate ==
    \/ Tick
    \/ \E e \in HealthEndpoints, c \in Credentials : HealthRequest(e, c)
    \/ \E e \in DataEndpoints, c \in Credentials, v \in VaultOutcomes, r \in RepoOutcomes :
          DataRequest(e, c, v, r)

SpecGate == InitAuth /\ [][NextGate]_vars

ClockIdle == now = 0 /\ ttl_seconds = 0

InitQuery == ClockIdle /\ CacheIdle /\ AuthIdle /\ QueryIdle /\ FetchIdle /\ LoadIdle /\ RaceIdle /\ PocIdle

NextQuery ==
    \/ \E cls \in Classes : Construct(cls)
    \/ Discard

SpecQuery == InitQuery /\ [][NextQuery]_vars

InitFetch == ClockIdle /\ CacheIdle /\ AuthIdle /\ QueryIdle /\ FetchInit /\ LoadIdle /\ RaceIdle /\ PocIdle

NextFetch ==
    \/ FetchDataset
    \/ FetchPrices
    \/ FetchRealEstate
    \/ Return

SpecFetch == InitFetch /\ [][NextFetch]_vars

InitSummary == ClockIdle /\ CacheIdle /\ AuthIdle /\ QueryIdle /\ SummaryInit /\ LoadIdle /\ RaceIdle /\ PocIdle

NextSummary ==
    \/ FetchProviderSummary
    \/ ListProviders
    \/ Return

SpecSummary == InitSummary /\ [][NextSummary]_vars

\* The caller goes on with what the load or the resolution gave it.
Loaded ==
    /\ lop # NoLoad
    /\ lop' = NoLoad
    /\ UNCHANGED <<root, present, clockVars, cacheVars, authVars, queryVars, fetchVars, raceVars, pocVars>>

InitLoad == ClockInit /\ CacheIdle /\ AuthIdle /\ QueryIdle /\ FetchIdle /\ LoadInit /\ RaceIdle /\ PocIdle

NextLoad ==
    \/ lop = NoLoad /\ Tick
    \/ CreateRoot
    \/ \E f \in FileNames : Land(f)
    \/ \E f \in FileNames : Remove(f)
    \/ RemoveRoot
    \/ ReadLazyframe
    \/ \E path \in LocalPaths : DownloadToCache(path, "fail")
    \/ Loaded

SpecLoad == InitLoad /\ [][NextLoad]_vars

\* The resolution of a path on its own, for local paths and a URL.
NextResolve ==
    \/ lop = NoLoad /\ Tick
    \/ CreateRoot
    \/ \E f \in FileNames : Land(f)
    \/ \E f \in FileNames : Remove(f)
    \/ \E path \in SourcePaths, net \in NetOutcomes : DownloadToCache(path, net)
    \/ Loaded

SpecResolve == InitLoad /\ [][NextResolve]_vars

InitRace == ClockInit /\ RaceInit /\ AuthIdle /\ QueryIdle /\ FetchIdle /\ LoadIdle /\ PocIdle

NextRace ==
    \/ Tick
    \/ \E t \in Threads : Call(t)
    \/ \E t \in Threads : Check(t)
    \/ \E t \in Threads : ReadJson(t)
    \/ \E t \in Threads, loaded \in RaceLoads : Load(t, loaded)
    \/ \E t \in Threads : OpenFile(t)
    \/ \E t \in Threads : WriteFile(t)
    \/ \E t \in Threads : Finish(t)

SpecRace == InitRace /\ [][NextRace]_vars

InitKeys == ClockIdle /\ CacheIdle /\ AuthIdle /\ QueryIdle /\ FetchIdle /\ LoadIdle /\ RaceIdle /\ PocIdle

NextKeys == \E key \in KeyStrings : PathForKey(key)

SpecKeys == InitKeys /\ [][NextKeys]_vars

InitStore ==
    ClockIdle /\ CacheIdle /\ AuthIdle /\ QueryIdle /\ FetchIdle /\ LoadIdle /\ RaceIdle
    /\ StoreInit /\ RetryIdle /\ CleanIdle

NextStore ==
    \/ \E key \in StoreKeys, data \in StoreData : PutObject(key, data)
    \/ \E key \in StoreKeys : GetObject(key)

SpecStore == InitStore /\ [][NextStore]_vars

InitRetry ==
    ClockIdle /\ CacheIdle /\ AuthIdle /\ QueryIdle /\ FetchIdle /\ LoadIdle /\ RaceIdle
    /\ StoreIdle /\ RetryInit /\ CleanIdle

NextRetry ==
    \/ \E attempts \in Attempts, backoff \in Backoffs : CallWrapped(attempts, backoff)
    \/ \E outcome \in Outcomes : Invoke(outcome)
    \/ Sleep
    \/ CallEnds

SpecRetry == InitRetry /\ [][NextRetry]_vars

InitClean ==
    ClockIdle /\ CacheIdle /\ AuthIdle /\ QueryIdle /\ FetchIdle /\ LoadIdle /\ RaceIdle
    /\ StoreIdle /\ RetryIdle /\ CleanInit

NextClean ==
    \/ \E key \in RawKeys, envelope \in Envelopes : LandRaw(key, envelope)
    \/ StartRun
    \/ NoValidRecords
    \/ WriteOutputs
    \/ WriteManifestEntry
    \/ EndRun

SpecClean == InitClean /\ [][NextClean]_vars

\* ------------------------------------------------------------------ claims

\* The entry of a key is the file at its path. At a call it was fresh when it
\* had been written through the manager no longer than the TTL before.
EntryFresh(c) == c.prev.at >= 0 /\ c.at - c.prev.at <= ttl_seconds

\* C1: get_or_set_json(key, loader) on a fresh entry returns the cached value and
\* does not invoke the loader; otherwise it invokes the loader once, persists the
\* loader's result under the key and returns it. So the call that follows a miss
\* within the TTL returns the persisted value with no loader invocation.
C1_GetOrSetJson ==
    cop.op = "get_or_set_json" =>
      LET p == key_path(cop.key)
      IN  /\ cop.loaderCalls <= 1
          /\ EntryFresh(cop) =>
                /\ cop.loaderCalls = 0
                /\ cop.raised = ""
                /\ cop.val = PyList(cop.prev.val.items)
                /\ written[p] = cop.prev
          /\ ~EntryFresh(cop) =>
                /\ cop.loaderCalls = 1
                /\ cop.raised = "" =>
                      /\ written[p] = [at |-> cop.at, val |-> cop.val]
                      /\ now - cop.at <= ttl_seconds => p \in DOMAIN cacheFiles
                      /\ p \in DOMAIN cacheFiles =>
                            cacheFiles[p] = [mtime |-> cop.at,
                                             data |-> [fmt |-> "json", doc |-> cop.val.items]]

\* A call at a later second than the miss that wrote the entry was served from it.
C1_Witness ==
    /\ cop.op = "get_or_set_json"
    /\ cop.loaderCalls = 0
    /\ cop.val = PyList(<<"f1">>)
    /\ cop.prev.val.type = "tuple"
    /\ cop.at > cop.prev.at

\* C2: is_fresh(key) is true exactly when the entry of key exists and
\* now - (its last write time) <= ttl_seconds: false for a key never written, true
\* right after write_bytes, false once the entry is older than the TTL.
C2_IsFresh ==
    /\ cop.op = "is_fresh" => cop.fresh = EntryFresh(cop)
    /\ cop.op = "write_bytes" /\ now = cop.at =>
          is_fresh(cacheFiles, cop.key, now, ttl_seconds)

\* An entry written by write_bytes was found stale after the TTL.
C2_Witness ==
    /\ cop.op = "is_fresh"
    /\ cop.key = <<"demo">>
    /\ ~cop.fresh
    /\ cop.prev.at >= 0
    /\ cop.at - cop.prev.at = ttl_seconds + 1

\* The credential is a bearer-scheme credential.
Bearer(cred) == cred # NoCredentials /\ lower(cred.scheme) = "bearer"

\* The token a request is checked against: the provider of a request is new, so
\* with a vault configured it is the value the vault returns, else the fallback.
ExpectedToken(a) == IF key_vault_name # None THEN a.vault ELSE api_auth_fallback

\* C3: a request to a non-health endpoint reaches the repository only with a
\* bearer-scheme credential whose value equals the expected token: no credential or
\* another scheme gives 401, a bearer credential with another value gives 401, a
\* matching one is accepted (200 when the repository returns rows). A health
\* endpoint answers 200 whatever the credential.
C3_BearerGate ==
    aop.op = "request" =>
      IF aop.endpoint \in HealthEndpoints
        THEN aop.status = 200
        ELSE /\ ~Bearer(aop.cred) => aop.status = 401 /\ ~aop.reached
             /\ Bearer(aop.cred) /\ ExpectedToken(aop) \in Tokens =>
                  IF aop.cred.credentials = ExpectedToken(aop)
                    THEN aop.reached /\ (aop.repo = "rows" => aop.status = 200)
                    ELSE aop.status = 401 /\ ~aop.reached
             /\ aop.reached =>
                  /\ Bearer(aop.cred)
                  /\ ExpectedToken(aop) \in Tokens
                  /\ aop.cred.credentials = ExpectedToken(aop)

\* A request with the token the vault returned, in another case than "Bearer",
\* got its rows.
C3_Witness ==
    /\ aop.op = "request"
    /\ aop.endpoint = "/data/prices"
    /\ aop.cred = [scheme |-> "BEARER", credentials |-> "tokB"]
    /\ aop.contacted
    /\ aop.reached
    /\ aop.status = 200

\* The TTL had elapsed since the last fetch when the validation was made.
TtlElapsed(a) == a.pre.fetched_at # -1 /\ a.at - a.pre.fetched_at > ttl_seconds

\* C4 as stated, for the validations that get as far as the token (those with a
\* bearer credential): the gate refreshes exactly when there is no cached token,
\* or a vault is configured and the TTL has elapsed since the last fetch; otherwise
\* the cached token is reused and the secret store is not contacted.
C4_RefreshAsStated ==
    aop.op = "validate" /\ Bearer(aop.cred) =>
      /\ aop.refresh = (\/ aop.pre.cached_token = None
                        \/ key_vault_name # None /\ TtlElapsed(aop))
      /\ ~aop.refresh => ~aop.contacted

\* C4 amended: a validation that presents a bearer credential refreshes exactly
\* when there is no cached token, or a vault is configured and either nothing was
\* fetched yet or the TTL has elapsed since the last fetch; otherwise (and for
\* every validation without a bearer credential) the cached token is reused and
\* the secret store is not contacted.
C4_Refresh ==
    aop.op = "validate" =>
      /\ aop.refresh =
           /\ Bearer(aop.cred)
           /\ \/ aop.pre.cached_token = None
              \/ /\ key_vault_name # None
                 /\ aop.pre.fetched_at = -1 \/ TtlElapsed(aop)
      /\ ~aop.refresh =>
           /\ ~aop.contacted
           /\ aop.status = 0 => aop.cred.credentials = aop.pre.cached_token

\* A token fetched from the vault was reused, one second later, within the TTL.
C4_Witness ==
    /\ aop.op = "validate"
    /\ key_vault_name # None
    /\ aop.pre.fetched_at # -1
    /\ aop.at > aop.pre.fetched_at
    /\ ~aop.refresh
    /\ aop.status = 0

\* The refresh of a validation or request failed: the secret store is not
\* configured, raised, or returned no value.
RefreshFailed(a) ==
    /\ a.refresh
    /\ \/ key_vault_name = None
       \/ a.contacted /\ a.vault \in {"raise", None, ""}

\* C5: whenever a token refresh fails, the validation ends with 503 and with no
\* other error.
C5_RefreshFailureIs503 ==
    aop.op \in {"validate", "request"} /\ RefreshFailed(aop) => aop.status = 503

\* input.strip(), stated on positions: the stretch from the first to the last
\* character that is no whitespace.
NonBlank(str) == {i \in DOMAIN str : str[i] # " "}
Trimmed(str) ==
    IF NonBlank(str) = {} THEN <<>>
    ELSE SubSeq(str, CHOOSE i \in NonBlank(str) : \A j \in NonBlank(str) : i <= j,
                     CHOOSE i \in NonBlank(str) : \A j \in NonBlank(str) : i >= j)
\* The length of a text parameter after normalization, 0 for an absent one.
NormalLength(value) == IF value = Absent THEN 0 ELSE Len(Trimmed(value[1]))
Both(x, y) == x # Absent /\ y # Absent

\* The constraints C6 lists, on the raw parameters.
ConstraintsHold(raw) ==
    /\ raw.limit = Absent \/ raw.limit[1] \in 1..10000
    /\ NormalLength(raw.country) \in {0, 2, 3}
    /\ NormalLength(raw.region) # 1
    /\ \A f \in {"min_price", "max_price", "min_bedrooms", "max_bedrooms"} :
         raw[f] = Absent \/ raw[f][1] >= 0
    /\ Both(raw.start_date, raw.end_date) => raw.end_date[1] >= raw.start_date[1]
    /\ Both(raw.min_price, raw.max_price) => raw.max_price[1] >= raw.min_price[1]
    /\ Both(raw.min_bedrooms, raw.max_bedrooms) => raw.max_bedrooms[1] >= raw.min_bedrooms[1]

\* C6: the construction of a query succeeds if and only if every constraint holds
\* (limit in 1..10000; country of 2-3 and region of at least 2 characters after
\* normalization; prices and bedrooms >= 0; end >= start, max >= min when both are
\* set); a violation is a validation error, and a value is never clamped or
\* replaced: limit is 1000 only when it was omitted.
C6_Validation ==
    qres # NoQuery =>
      /\ qres.ok = ConstraintsHold(qraw)
      /\ qres.ok = (qres.errors = {})
      /\ qres.ok =>
           /\ qres.query.limit = (IF qraw.limit = Absent THEN Some(1000) ELSE qraw.limit)
           /\ \A f \in DOMAIN qraw \ (StringFields \cup {"limit"}) : qres.query[f] = qraw[f]

\* A price query with both bounds valid on their own and max_price < min_price
\* was rejected.
C6_Witness ==
    /\ qres.cls = "PriceQuery"
    /\ ~qres.ok
    /\ qraw.min_price = Some(2)
    /\ qraw.max_price = Some(0)

\* C7: in every query that was constructed, provider, country and region are
\* input.strip().upper() when the trimmed input is not empty, and absent when the
\* input is absent or trims to the empty string.
C7_Normalized ==
    qres # NoQuery /\ qres.ok =>
      \A f \in StringFields :
        qres.query[f] =
          IF qraw[f] = Absent \/ Trimmed(qraw[f][1]) = <<>> THEN Absent
          ELSE Some([i \in DOMAIN Trimmed(qraw[f][1]) |->
                       IF Trimmed(qraw[f][1])[i] = "a" THEN "A" ELSE Trimmed(qraw[f][1])[i]])

\* A provider with blanks around lower-case text came out trimmed and upper-cased,
\* and a region of blanks came out absent.
C7_Witness ==
    /\ qres.ok
    /\ qraw.provider = Some(<<" ", "a", " ", "a">>)
    /\ qres.query.provider = Some(<<"A", " ", "A">>)
    /\ qraw.region = Some(<<" ", " ">>)
    /\ qres.query.region = Absent

\* The rows of the dataset by position, and the positions a fetch returned.
Positions == DOMAIN frame.rows
Returned == {fop.rows[i]["#"].n : i \in DOMAIN fop.rows}
Fetching == fop.op # "none"

\* An equality filter is due when the query sets the field and the dataset has the column.
FilterDue(f) == fop.query[f] # Absent /\ f \in frame.schema
Matches(row, f) == row[f].t = "str" /\ row[f].s = fop.query[f][1]
FailsEquality(row) == \E f \in StringFields : FilterDue(f) /\ ~Matches(row, f)

\* A row is within the date bounds when each bound that is set has a valid date on its
\* right side, the bound itself included.
WithinDates(row) ==
    /\ fop.query.start_date # Absent => row["date"].t = "date" /\ row["date"].n >= fop.query.start_date[1]
    /\ fop.query.end_date # Absent => row["date"].t = "date" /\ row["date"].n <= fop.query.end_date[1]
FailsDates(row) == "date" \in frame.schema /\ ~WithinDates(row)

\* A row is beyond the cap when limit rows before it already pass the common filters.
PassesCommon(row) == ~FailsEquality(row) /\ ~FailsDates(row)
BeyondCap(pos) ==
    Cardinality({j \in Positions : j < pos /\ PassesCommon(frame.rows[j])}) >= fop.query.limit[1]

\* C8: _apply_common_filters filters on provider, country and region exactly when the
\* query sets the field and the dataset has the column: then every returned row has the
\* query's value in that column; a field that is unset or whose column is missing raises
\* nothing and drops no row, so a dropped row fails a filter that is due, fails the date
\* bounds or lies beyond the cap.
C8_EqualityFilters ==
    Fetching =>
      /\ fop.raised = ""
      /\ \A f \in StringFields :
           FilterDue(f) => \A i \in DOMAIN fop.rows : Matches(fop.rows[i], f)
      /\ fop.op = "fetch_dataset" =>
           \A pos \in Positions \ Returned :
             FailsEquality(frame.rows[pos]) \/ FailsDates(frame.rows[pos]) \/ BeyondCap(pos)
C8_Witness ==
    /\ fop.op = "fetch_dataset"
    /\ FilterDue("provider")
    /\ fop.query.country = Absent
    /\ \E pos \in Positions \ Returned : ~Matches(frame.rows[pos], "provider")
    /\ \E pos \in Returned : frame.rows[pos]["country"] # PlainRow(pos)["country"]

\* C9: with a date column, the returned rows have a date on or after start_date and on or
\* before end_date; a row whose date is no valid date has a null date, is never returned
\* when a bound is set and is kept by the date filter when none is set; a row on a bound
\* is kept. Without a date column the bounds drop nothing and raise nothing.
C9_DateBounds ==
    Fetching =>
      /\ fop.raised = ""
      /\ "date" \in frame.schema =>
           \A i \in DOMAIN fop.rows :
             /\ WithinDates(fop.rows[i])
             /\ WithinDates(frame.rows[fop.rows[i]["#"].n])
             /\ frame.rows[fop.rows[i]["#"].n]["date"].t # "date" => fop.rows[i]["date"] = Null
      /\ fop.op = "fetch_dataset" =>
           \A pos \in Positions \ Returned :
             \/ FailsEquality(frame.rows[pos])
             \/ BeyondCap(pos)
             \/ /\ "date" \in frame.schema
                /\ \/ /\ fop.query.start_date # Absent
                      /\ frame.rows[pos]["date"].t = "date" => frame.rows[pos]["date"].n < fop.query.start_date[1]
                   \/ /\ fop.query.end_date # Absent
                      /\ frame.rows[pos]["date"].t = "date" => frame.rows[pos]["date"].n > fop.query.end_date[1]
C9_Witness ==
    /\ fop.op = "fetch_dataset"
    /\ "date" \in frame.schema
    /\ fop.query.start_date # Absent
    /\ \E pos \in Returned : frame.rows[pos]["date"] = Date(fop.query.start_date[1])
    /\ \E pos \in Positions \ Returned : frame.rows[pos]["date"].t = "str"

\* The column a fetch bounds, and the bounds its query carries.
BoundedColumn == IF fop.op = "fetch_prices" THEN "price" ELSE "bedrooms"
LowerBound == IF fop.op = "fetch_prices" THEN fop.query.min_price ELSE fop.query.min_bedrooms
UpperBound == IF fop.op = "fetch_prices" THEN fop.query.max_price ELSE fop.query.max_bedrooms
WithinBounds(row) ==
    /\ LowerBound # Absent => row[BoundedColumn].t = "num" /\ row[BoundedColumn].n >= LowerBound[1]
    /\ UpperBound # Absent => row[BoundedColumn].t = "num" /\ row[BoundedColumn].n <= UpperBound[1]

\* C10: fetch_prices and fetch_realestate return rows that pass the common filters and,
\* when the dataset has the price (bedrooms) column, lie within the inclusive bounds
\* the query sets; without the column the bounds raise nothing and drop nothing.
C10_Bounds ==
    fop.op \in {"fetch_prices", "fetch_realestate"} =>
      /\ fop.raised = ""
      /\ \A i \in DOMAIN fop.rows :
           /\ PassesCommon(frame.rows[fop.rows[i]["#"].n])
           /\ BoundedColumn \in frame.schema => WithinBounds(fop.rows[i])
      /\ \A pos \in Positions \ Returned :
           \/ ~PassesCommon(frame.rows[pos])
           \/ BeyondCap(pos)
           \/ BoundedColumn \in frame.schema /\ ~WithinBounds(frame.rows[pos])
C10_Witness ==
    /\ fop.op = "fetch_prices"
    /\ "price" \in frame.schema
    /\ fop.query.max_price # Absent
    /\ \E pos \in Returned : frame.rows[pos]["price"] = Num(fop.query.max_price[1])
    /\ \E pos \in Positions \ Returned : frame.rows[pos]["price"].n > fop.query.max_price[1]

\* The rows _apply_common_filters lets through, by position.
Kept == {pos \in Positions : PassesCommon(frame.rows[pos]) /\ ~BeyondCap(pos)}
GroupOf(cell) == {pos \in Kept : frame.rows[pos]["provider"] = cell}
RECURSIVE TotalOf(_, _)
TotalOf(S, name) ==
    IF S = {} THEN 0
    ELSE LET pos == CHOOSE x \in S : TRUE
         IN  frame.rows[pos][name].n + TotalOf(S \ {pos}, name)
Ascending(cells) == \A i, j \in DOMAIN cells : i < j => cell_lt(cells[i], cells[j])

\* The column a summary aggregates: the metric of the query when it is a non-empty
\* string, else price when the dataset has it, else value.
Metric ==
    IF fop.query.metric # Absent /\ fop.query.metric[1] # <<>> THEN ColumnName(fop.query.metric[1])
    ELSE IF "price" \in frame.schema THEN "price" ELSE "value"
\* The same with every metric that is not None taken as set.
MetricAsStated ==
    IF fop.query.metric # Absent THEN ColumnName(fop.query.metric[1])
    ELSE IF "price" \in frame.schema THEN "price" ELSE "value"
Summarising == fop.op = "fetch_provider_summary"

C12_MetricAsStated ==
    Summarising =>
      /\ MetricAsStated \notin frame.schema => fop.raised = "DataAccessError" /\ fop.rows = <<>>
      /\ MetricAsStated \in frame.schema /\ "provider" \in frame.schema =>
           /\ fop.raised = ""
           /\ \A i \in DOMAIN fop.rows :
                fop.rows[i].total = TotalOf(GroupOf(fop.rows[i].provider), MetricAsStated)

\* C12: fetch_provider_summary aggregates over query.metric when it is set to a
\* non-empty string, otherwise over price when the dataset has a price column,
\* otherwise over value; when the chosen column is absent it fails with
\* DataAccessError and returns no rows.
C12_Metric ==
    Summarising =>
      /\ Metric \notin frame.schema => fop.raised = "DataAccessError" /\ fop.rows = <<>>
      /\ Metric \in frame.schema /\ "provider" \in frame.schema =>
           /\ fop.raised = ""
           /\ \A i \in DOMAIN fop.rows :
                fop.rows[i].total = TotalOf(GroupOf(fop.rows[i].provider), Metric)
C12_Witness ==
    /\ Summarising
    /\ fop.query.metric = Some(<<"value">>)
    /\ "price" \in frame.schema
    /\ \E i \in DOMAIN fop.rows :
         fop.rows[i].total # TotalOf(GroupOf(fop.rows[i].provider), "price")

\* C13: list_providers returns each distinct provider of the dataset once, in
\* ascending order, and fails with DataAccessError when the dataset has no provider
\* column.
C13_ListProviders ==
    fop.op = "list_providers" =>
      /\ "provider" \notin frame.schema => fop.raised = "DataAccessError" /\ fop.rows = <<>>
      /\ "provider" \in frame.schema =>
           /\ fop.raised = ""
           /\ {fop.rows[i] : i \in DOMAIN fop.rows} = {frame.rows[pos]["provider"] : pos \in Positions}
           /\ Ascending(fop.rows)
C13_Witness ==
    /\ fop.op = "list_providers"
    /\ Len(frame.rows) = 2
    /\ fop.rows = <<frame.rows[2]["provider"], frame.rows[1]["provider"]>>

\* The list entry of the dataset and the byte entry of a path as they were when the
\* load or the resolution began.
ListPath == key_path(ListKey(Dataset))
ListWasFresh == ListPath \in DOMAIN lop.pre /\ lop.at - lop.pre[ListPath].mtime <= ttl_seconds
CachedList == lop.pre[ListPath].data.doc
BytesPath(path) == key_path(cache_key_for_path(path))
BytesWereFresh(path) ==
    BytesPath(path) \in DOMAIN lop.pre /\ lop.at - lop.pre[BytesPath(path)].mtime <= ttl_seconds
Range(seq) == {seq[i] : i \in DOMAIN seq}
Loading == lop.op = "read_lazyframe"
Resolving == lop.op = "download_to_cache"
\* The file list the load resolves is empty: the cached one, or the listing.
EmptyList ==
    \/ ListWasFresh /\ CachedList = <<>>
    \/ ~ListWasFresh /\ lop.root /\ lop.present = {}

\* C14 as stated: every load on a dataset whose root does not exist fails.
C14_LoadAsStated ==
    Loading =>
      /\ lop.raised = "" => lop.scanned # <<>>
      /\ ~lop.root => lop.raised = "DataAccessError"
      /\ lop.root /\ EmptyList =>
           lop.raised = "DataAccessError" /\ lop.message = "No parquet files available"

\* C14: a load never yields a frame over zero files: when the list entry is not fresh
\* and the root does not exist it fails with DataAccessError (dataset not found), and
\* when the file list it resolves is empty it fails with DataAccessError (no files);
\* a fresh list entry is used without looking at the root.
C14_Load ==
    Loading =>
      /\ lop.raised = "" => lop.scanned # <<>>
      /\ ~lop.root /\ ~ListWasFresh =>
           lop.raised = "DataAccessError" /\ lop.message = "Dataset path not found"
      /\ EmptyList =>
           lop.raised = "DataAccessError" /\ lop.message = "No parquet files available"
      /\ ListWasFresh => lop.loaderCalls = 0 /\ lop.message # "Dataset path not found"
C14_Witness ==
    /\ Loading
    /\ ~lop.root
    /\ ListPath \in DOMAIN lop.pre
    /\ ~ListWasFresh
    /\ lop.message = "Dataset path not found"

\* C15: while the list entry is fresh a load resolves the cached list, so a file that
\* is not in it is in no frame; the first load after the entry stopped being fresh
\* lists the root again and its frame has every file that is there.
C15_ListStaleness ==
    Loading =>
      /\ ListWasFresh =>
           /\ lop.loaderCalls = 0
           /\ lop.used = CachedList
           /\ Range(lop.scanned) \subseteq {cache_path(path) : path \in Range(CachedList)}
      /\ ~ListWasFresh /\ lop.root =>
           \A f \in lop.present :
             lop.raised = "" /\ cache_path(PathOf(f)) \in Range(lop.scanned)
C15_Witness ==
    /\ Loading
    /\ ListWasFresh
    /\ lop.scanned # <<>>
    /\ \E f \in lop.present :
         PathOf(f) \notin Range(CachedList) /\ cache_path(PathOf(f)) \notin Range(lop.scanned)

\* C16 as stated: the resolution of a path that exists locally returns the path itself
\* and leaves the cache directory as it was.
C16_LocalAsIs ==
    Resolving /\ source_exists(lop.path, lop.present) =>
      /\ lop.local = [dir |-> "source", name |-> lop.path]
      /\ cacheFiles = lop.pre

\* C17: when the download of a path fails the resolution has called requests.get once,
\* raises DataAccessError caused by the RequestException and leaves the cache
\* directory as it was.
C17_DownloadFailure ==
    Resolving /\ ~BytesWereFresh(lop.path) /\ ~source_exists(lop.path, lop.present)
              /\ lop.net = "fail" =>
      /\ lop.requests = 1
      /\ lop.raised = "DataAccessError"
      /\ lop.cause = "RequestException"
      /\ lop.local = NoPath
      /\ cacheFiles = lop.pre
C17_Witness ==
    /\ Resolving
    /\ lop.path = RemotePath
    /\ BytesPath(RemotePath) \in DOMAIN lop.pre
    /\ lop.raised = "DataAccessError"

\* C18: a load that returns a frame has resolved every path of the list it used, in
\* order, to a cache entry that holds the bytes of that path; when one path of the list
\* can not be resolved (its byte entry is not fresh and the file is gone) the load fails
\* with DataAccessError and has no frame.
C18_NoPartialResult ==
    Loading =>
      /\ lop.raised = "" =>
           /\ Len(lop.scanned) = Len(lop.used)
           /\ \A i \in DOMAIN lop.used :
                /\ lop.scanned[i] = cache_path(lop.used[i])
                /\ BytesPath(lop.used[i]) \in DOMAIN cacheFiles
                /\ cacheFiles[BytesPath(lop.used[i])].data = content(lop.used[i])
      /\ lop.raised # "" => lop.scanned = <<>>
      /\ ListWasFresh /\ (\E path \in Range(CachedList) :
                            ~BytesWereFresh(path) /\ ~source_exists(path, lop.present)) =>
           lop.raised = "DataAccessError"
C18_Witness ==
    /\ Loading
    /\ ListWasFresh
    /\ lop.raised = "DataAccessError"
    /\ \E path \in Range(CachedList) : ~BytesWereFresh(path) /\ ~source_exists(path, lop.present)
    /\ \E path \in Range(CachedList) : source_exists(path, lop.present)

\* No thread is between the opening of the file and the write of its bytes.
NoWriteInProgress == \A t \in Threads : threads[t].pc # "write"

\* C19: under any interleaving of concurrent get_or_set_json calls on one key,
\* every call returns a value, that value is the complete result of one loader
\* invocation, and the entry stored once the writes are over is the complete
\* result of one loader invocation, never a partially written or mixed value.
C19_NoCorruption ==
    threads # <<>> =>
      /\ \A t \in Threads :
           threads[t].pc = "done" => threads[t].raised = "" /\ threads[t].val \in RaceLoads
      /\ NoWriteInProgress /\ key_path(RaceKey) \in DOMAIN cacheFiles =>
           \E loaded \in RaceLoads : cacheFiles[key_path(RaceKey)].data = encode(loaded)

\* C20: for every key, the file the cache reads or writes is a direct child of
\* the cache base directory, never the directory itself, its parent or a path
\* outside it.
C20_DirectChild ==
    cop.op = "path_for_key" => location(cop.key) = "child"

\* C21: two different cache keys are never mapped to the same cache file: a
\* get_or_set_json that returns the cached value right after a call that wrote
\* the file it reads was made with the key of that call.
C21_NoCollision ==
    [][ ( /\ cop.op = "get_or_set_json" /\ cop.loaderCalls = 1 /\ cop.raised = ""
          /\ cop'.op = "get_or_set_json" /\ cop'.loaderCalls = 0
          /\ key_path(cop'.key) = key_path(cop.key) )
        => cop'.key = cop.key ]_vars

\* C22: the token state is kept per process: once a request has fetched the
\* secret, a request the same process handles at the same instant, which is
\* within every TTL, reuses the token and does not contact the secret store.
C22_OncePerWindow ==
    [][ ( /\ aop.op = "request" /\ aop.contacted /\ aop.vault \in Tokens
          /\ aop'.op = "request" /\ now' = now )
        => ~aop'.contacted ]_vars

\* C23: on every non-health endpoint a DataAccessError raised by the repository
\* is answered with status 400.
C23_DataErrorIs400 ==
    aop.op = "request" /\ aop.repo = "DataAccessError" => aop.status = 400

\* What a fetch returned, as the frame a second application starts from.
Once == [schema |-> frame.schema, rows |-> fop.rows, err |-> fop.raised]

\* C24: _apply_common_filters is idempotent: applied with the same query to the
\* rows it returned, it returns the same rows.
C24_Idempotent ==
    fop.op = "fetch_dataset" => apply_common_filters(Once, fop.query) = Once

\* A fetch with an equality filter and a cap of one row that returned one row of
\* two: the second application has a row to filter and a cap that is reached.
C24_Witness ==
    /\ fop.op = "fetch_dataset"
    /\ fop.query.provider # Absent
    /\ "provider" \in frame.schema
    /\ fop.query.limit[1] = 1
    /\ Len(frame.rows) = 2
    /\ Len(fop.rows) = 1

\* C25: get_object(k) returns exactly the bytes of the most recent put_object(k, d),
\* a put under one key does not change what another key returns, and get_object
\* on a key never put raises FileNotFoundError.
C25_RoundTrip ==
    /\ sop # <<>> /\ sop.op = "get_object" =>
         IF sop.puts[sop.key] = ""
           THEN sop.raised = "FileNotFoundError"
           ELSE sop.raised = "" /\ sop.val = sop.puts[sop.key]
    /\ sop # <<>> /\ sop.op = "put_object" /\ sop.raised = "" =>
         \A k \in StoreKeys \ {sop.key} : sop.puts[k] = sop.pre[k]

\* The rows of the dataset that satisfy every filter of the query.
Matching ==
    {pos \in Positions :
       /\ PassesCommon(frame.rows[pos])
       /\ BoundedColumn \in frame.schema => WithinBounds(frame.rows[pos])}

\* C26: fetch_prices and fetch_realestate return min(limit, n) rows, n being the
\* number of rows that satisfy the common filters and the price (bedroom) bounds.
C26_CapAfterFilters ==
    fop.op \in {"fetch_prices", "fetch_realestate"} /\ fop.raised = "" =>
      Len(fop.rows) = IF Cardinality(Matching) < fop.query.limit[1]
                        THEN Cardinality(Matching)
                        ELSE fop.query.limit[1]

\* C27: after a failed refresh, a secret store that returns an empty value
\* included, the cached token and the fetch timestamp are as they were before.
C27_FailedRefreshKeepsState ==
    aop.op = "validate" /\ RefreshFailed(aop) => tp = aop.pre

\* C28: when the loader of get_or_set_json raises, the exception propagates and
\* the cache directory is as it was: a listing that failed because the root is
\* missing ran the loader, left no fresh entry, and so the next call lists again.
C28_FailedLoaderNotCached ==
    Loading /\ ~ListWasFresh /\ ~lop.root =>
      /\ lop.raised = "DataAccessError"
      /\ lop.message = "Dataset path not found"
      /\ lop.loaderCalls = 1
      /\ cacheFiles = lop.pre
      /\ ~is_fresh(cacheFiles, ListKey(Dataset), lop.at, ttl_seconds)

\* The listing failed while an expired entry of an earlier listing was in the cache.
C28_Witness ==
    /\ Loading
    /\ ~ListWasFresh
    /\ ~lop.root
    /\ ListPath \in DOMAIN lop.pre
    /\ CachedList # <<>>
    /\ lop.raised = "DataAccessError"

\* max(1, config.attempts)
MostInvocations == IF rcall.attempts > 1 THEN rcall.attempts ELSE 1
Failed(n) == \A i \in 1..n : rcall.log[i] # "ok"

\* C29: a function wrapped by retry(config) is invoked at most max(1, attempts)
\* times per call; the wrapper returns the result of the first invocation that
\* succeeds, after failures only, and raises the exception of the failure number
\* max(1, attempts); while it goes on, fewer invocations than that were made.
C29_Retry ==
    rcall # <<>> =>
      /\ Len(rcall.log) <= MostInvocations
      /\ rcall.pc \in {"invoke", "sleep"} =>
           Len(rcall.log) < MostInvocations /\ Failed(Len(rcall.log))
      /\ rcall.pc = "returned" =>
           /\ rcall.result = Len(rcall.log)
           /\ rcall.log[Len(rcall.log)] = "ok"
           /\ Failed(Len(rcall.log) - 1)
      /\ rcall.pc = "raised" =>
           /\ Len(rcall.log) = MostInvocations
           /\ rcall.raised = MostInvocations
           /\ rcall.exc = rcall.log[MostInvocations]
           /\ Failed(MostInvocations)

\* Three attempts were configured and the third failure in a row was raised.
C29_Witness ==
    /\ rcall # <<>>
    /\ rcall.pc = "raised"
    /\ rcall.attempts = 3
    /\ Len(rcall.log) = 3

\* C30: a raw key is in the processed manifest only when its cleaned outputs were
\* uploaded; a key the manifest held is not among the keys a run finds; and a run
\* that starts after a run that returned finds only raw keys that landed since
\* that run started.
C30_CleaningIdempotent ==
    bucket # <<>> =>
      /\ \A i \in DOMAIN bucket.manifest :
           bucket.manifest[i] \in bucket.json /\ bucket.manifest[i] \in bucket.parquet
      /\ \A i \in DOMAIN run.found, j \in DOMAIN run.recorded : run.found[i] # run.recorded[j]
      /\ run.pc # "none" /\ run.after => \A i \in DOMAIN run.found : run.found[i] \in run.since

====
